---- MODULE Spec2Model ----
(***************************************************************************)
(* A model of DG.Formula (CODAP): the formula facade with its cached       *)
(* `parsed` / `compiled` properties, the type-coercion runtime, the        *)
(* tree-walking evaluator, the JavaScript code generator and the postfix   *)
(* evaluator.                                                              *)
(*                                                                         *)
(* JavaScript values are records tagged by the field t:                    *)
(*   undefined, null, boolean, number (finite rational n/d, NaN, +-Inf),   *)
(*   string (a sequence of one-character strings), date, error.            *)
(* An abrupt completion is a record tagged "throw".                        *)
(***************************************************************************)
EXTENDS Integers, Sequences, FiniteSets, TLC

VARIABLES
  source,        \* the formula's source text: null or a string
  context,       \* the context attached to the formula, NoContext for null
  parsedCache,   \* the cached value of `parsed`: [valid, value]
  compiledCache, \* the cached value of `compiled`: [valid, value]
  hasAggregatesCache, \* the cached value of `hasAggregates`: [valid, value]
  parseCount,    \* DG.Formula.parseCount
  ctxNames,      \* for each context, the slot each name is bound to
  ctxObservers,  \* the contexts the formula has registered its observers with
  stable,        \* [parsed, compiled]: what a read of the property returned, when
                 \* since that read there was no change of source or context, no
                 \* invalidation and no namespace notification
  last,          \* the last operation: its name, result and collaborator calls
  isDestroyed,   \* the formula has been destroyed
  tree, env, direct, generated, postfix, \* the evaluation strategies (below)
  operand1, operand2, \* two raw operands of the type-coercion runtime
  applied,       \* the runtime function applied to them and what it gave
  iDocument,     \* the document handed to DG.DocumentHelper.isValidJsonDocument
  validation,    \* what isValidJsonDocument returned and logged
  iResources, iValues, \* the arguments of DG.DocumentHelper.createCases
  reply,         \* what createCases returned
  editContext,   \* a DG.PlottedFormulaEditContext: its plottedFormula,
                 \* expression, formulaView and formulaDialog
  undoHistory,   \* DG.UndoHistory: the commands to undo and those to redo
  lastStep       \* the last step of an edit command: the command, the step
                 \* and the expression before it

facadeVars ==
  <<source, context, parsedCache, compiledCache, hasAggregatesCache, parseCount,
    ctxNames, ctxObservers, stable, last, isDestroyed>>
evalVars == <<tree, env, direct, generated, postfix>>
runtimeVars == <<operand1, operand2, applied>>
documentVars == <<iDocument, validation>>
caseVars == <<iResources, iValues, reply>>
editVars == <<editContext, undoHistory, lastStep>>
clientVars == <<documentVars, caseVars, editVars>>
vars == <<facadeVars, evalVars, runtimeVars, clientVars>>

RECURSIVE Invoke(_, _)

\* ------------------------------------------------------------------------
\* JavaScript values
\* ------------------------------------------------------------------------

Undef == [t |-> "undefined"]
NullV == [t |-> "null"]
Bool(b) == [t |-> "boolean", b |-> b]
Str(s) == [t |-> "string", v |-> s]
\* a Date object whose valueOf is the number v (of seconds);
\* id 0 is a freshly constructed object, identical to nothing but itself
DateV(v, id) == [t |-> "date", v |-> v, id |-> id]
ErrV(id) == [t |-> "error", id |-> id]
\* arg: the characters of the operator or name the error carries
Throw(cls, arg) == [t |-> "throw", cls |-> cls, arg |-> arg]
IsThrow(r) == r.t = "throw"

Abs(a) == IF a < 0 THEN -a ELSE a
Sign(a) == IF a < 0 THEN -1 ELSE IF a = 0 THEN 0 ELSE 1

RECURSIVE Gcd(_, _)
Gcd(a, b) == IF b = 0 THEN a ELSE Gcd(b, a % b)

\* the finite number n/d, in lowest terms with a positive denominator
Fin(n, d) ==
  LET g == Gcd(Abs(n), Abs(d))
      s == IF d < 0 THEN -1 ELSE 1
  IN [t |-> "number", k |-> "fin", n |-> (s * n) \div g, d |-> (s * d) \div g]
Num(n) == Fin(n, 1)
NaN == [t |-> "number", k |-> "nan", n |-> 0, d |-> 1]
Inf(s) == [t |-> "number", k |-> "inf", n |-> s, d |-> 1]
\* a finite number that is no rational (a root); its value is not tracked
Irr == [t |-> "number", k |-> "irr", n |-> 0, d |-> 1]

IsNaNNum(a) == a.k = "nan"
NumSign(a) == IF a.k = "irr" THEN 1 ELSE Sign(a.n)
IsInt(a) == a.k = "fin" /\ a.d = 1

NumNeg(a) ==
  CASE a.k = "fin" -> Fin(-a.n, a.d)
    [] a.k = "inf" -> Inf(-a.n)
    [] OTHER -> a

NumAdd(a, b) ==
  CASE a.k = "nan" \/ b.k = "nan" -> NaN
    [] a.k = "inf" /\ b.k = "inf" -> IF a.n = b.n THEN a ELSE NaN
    [] a.k = "inf" -> a
    [] b.k = "inf" -> b
    [] a.k = "irr" \/ b.k = "irr" -> Irr
    [] OTHER -> Fin(a.n * b.d + b.n * a.d, a.d * b.d)

NumSub(a, b) == NumAdd(a, NumNeg(b))

NumMul(a, b) ==
  CASE a.k = "nan" \/ b.k = "nan" -> NaN
    [] a.k = "inf" \/ b.k = "inf" ->
         IF NumSign(a) * NumSign(b) = 0 THEN NaN ELSE Inf(NumSign(a) * NumSign(b))
    [] a.k = "irr" \/ b.k = "irr" ->
         IF NumSign(a) * NumSign(b) = 0 THEN Num(0) ELSE Irr
    [] OTHER -> Fin(a.n * b.n, a.d * b.d)

NumDiv(a, b) ==
  CASE a.k = "nan" \/ b.k = "nan" -> NaN
    [] a.k = "inf" /\ b.k = "inf" -> NaN
    [] a.k = "inf" -> Inf(IF NumSign(b) < 0 THEN -a.n ELSE a.n)
    [] b.k = "inf" -> Num(0)
    [] NumSign(b) = 0 -> IF NumSign(a) = 0 THEN NaN ELSE Inf(NumSign(a))
    [] a.k = "irr" \/ b.k = "irr" -> IF NumSign(a) = 0 THEN Num(0) ELSE Irr
    [] OTHER -> Fin(a.n * b.d, a.d * b.n)

\* the integer part of the finite rational a, rounded towards zero
Trunc(a) == Sign(a.n) * (Abs(a.n) \div a.d)

\* JavaScript's %: the remainder takes the sign of the dividend
NumRem(a, b) ==
  CASE a.k = "nan" \/ b.k = "nan" -> NaN
    [] a.k = "inf" -> NaN
    [] NumSign(b) = 0 -> NaN
    [] b.k = "inf" -> a
    [] a.k = "irr" \/ b.k = "irr" -> Irr
    [] OTHER -> NumSub(a, NumMul(b, Num(Trunc(NumDiv(a, b)))))

RECURSIVE IntPow(_, _)
IntPow(a, e) == IF e = 0 THEN Num(1) ELSE NumMul(a, IntPow(a, e - 1))

\* Math.pow
NumPow(a, b) ==
  CASE b.k = "fin" /\ b.n = 0 -> Num(1)
    [] a.k = "nan" \/ b.k = "nan" -> NaN
    [] b.k = "inf" ->
         IF a.k = "fin" /\ Abs(a.n) = a.d THEN NaN
         ELSE IF (a.k = "fin" /\ Abs(a.n) < a.d) = (b.n > 0) THEN Num(0) ELSE Inf(1)
    [] IsInt(b) ->
         IF b.n > 0 THEN IntPow(a, b.n) ELSE NumDiv(Num(1), IntPow(a, -b.n))
    [] a.k = "inf" -> IF NumSign(b) > 0 THEN Inf(1) ELSE Num(0)
    [] NumSign(a) < 0 -> NaN
    [] NumSign(a) = 0 -> IF NumSign(b) > 0 THEN Num(0) ELSE Inf(1)
    [] a.k = "fin" /\ a.n = a.d -> Num(1)
    [] OTHER -> Irr

\* a < b on numbers; a comparison with NaN is false
NumLt(a, b) ==
  CASE a.k = "nan" \/ b.k = "nan" -> FALSE
    [] a.k = "inf" -> a.n < 0 /\ ~(b.k = "inf" /\ b.n < 0)
    [] b.k = "inf" -> b.n > 0
    [] a.k = "irr" \/ b.k = "irr" -> FALSE
    [] OTHER -> a.n * b.d < b.n * a.d

NumEq(a, b) == a.k # "nan" /\ b.k # "nan" /\ a.k # "irr" /\ a = b

NumLe(a, b) == NumLt(a, b) \/ NumEq(a, b)

\* ------------------------------------------------------------------------
\* Strings and the conversions of the host language
\* ------------------------------------------------------------------------

\* the characters of the model, in code-unit order
CharOrder ==
  << "\n", " ", "!", "\"", "%", "&", "(", ")", "*", "+", ",", "-", ".", "/",
     "0", "1", "2", "3", "4", "5", "6", "7", "8", "9", ":", "<", "=", ">", "?",
     "D", "E", "I", "N", "\\", "^", "a", "b", "c", "d", "e", "f", "g", "h", "i",
     "j", "k", "l", "m", "n", "o", "p", "q", "r", "s", "t", "u", "v", "w", "x",
     "y", "z", "|" >>
CharCode(c) == CHOOSE i \in 1..Len(CharOrder) : CharOrder[i] = c
DigitChars == <<"0", "1", "2", "3", "4", "5", "6", "7", "8", "9">>
IsDigit(c) == \E i \in 1..10 : DigitChars[i] = c
DigitVal(c) == (CHOOSE i \in 1..10 : DigitChars[i] = c) - 1
IsSpaceChar(c) == c \in {" ", "\n"}

RECURSIVE SeqLt(_, _)
\* the < of two strings: by code units, a proper prefix first
SeqLt(a, b) ==
  IF b = <<>> THEN FALSE
  ELSE IF a = <<>> THEN TRUE
  ELSE IF a[1] # b[1] THEN CharCode(a[1]) < CharCode(b[1])
  ELSE SeqLt(Tail(a), Tail(b))

RECURSIVE NatToChars(_)
NatToChars(n) ==
  IF n < 10 THEN <<DigitChars[n + 1]>>
  ELSE NatToChars(n \div 10) \o <<DigitChars[(n % 10) + 1]>>

RECURSIVE FracChars(_, _, _)
\* the decimal digits of r/d (r < d), at most k of them
FracChars(r, d, k) ==
  IF r = 0 \/ k = 0 THEN <<>>
  ELSE <<DigitChars[((r * 10) \div d) + 1]>> \o FracChars((r * 10) % d, d, k - 1)

\* the digits a number is printed with after the decimal point
FracDigits == 3

\* String(number)
NumToChars(a) ==
  CASE a.k = "nan" -> <<"N", "a", "N">>
    [] a.k = "inf" -> (IF a.n < 0 THEN <<"-">> ELSE <<>>) \o <<"I", "n", "f">>
    [] a.k = "irr" -> <<"?">>
    [] OTHER ->
         (IF a.n < 0 THEN <<"-">> ELSE <<>>)
         \o NatToChars(Abs(a.n) \div a.d)
         \o (IF a.d = 1 THEN <<>>
             ELSE <<".">> \o FracChars(Abs(a.n) % a.d, a.d, FracDigits))

RECURSIVE TrimLeft(_)
TrimLeft(s) == IF s # <<>> /\ IsSpaceChar(s[1]) THEN TrimLeft(Tail(s)) ELSE s
RECURSIVE TrimRight(_)
TrimRight(s) ==
  IF s # <<>> /\ IsSpaceChar(s[Len(s)]) THEN TrimRight(SubSeq(s, 1, Len(s) - 1)) ELSE s

RECURSIVE DigitsVal(_, _)
DigitsVal(s, acc) ==
  IF s = <<>> THEN acc ELSE DigitsVal(Tail(s), acc * 10 + DigitVal(s[1]))
RECURSIVE Pow10(_)
Pow10(k) == IF k = 0 THEN 1 ELSE 10 * Pow10(k - 1)
AllDigits(s) == \A i \in 1..Len(s) : IsDigit(s[i])

\* the number an unsigned decimal literal denotes, NaN when it is none
UnsignedToNum(s) ==
  LET dots == {i \in 1..Len(s) : s[i] = "."}
  IN IF s = <<>> THEN NaN
     ELSE IF dots = {} THEN
       (IF AllDigits(s) THEN Num(DigitsVal(s, 0)) ELSE NaN)
     ELSE IF Cardinality(dots) > 1 THEN NaN
     ELSE LET i == CHOOSE j \in dots : TRUE
              ip == SubSeq(s, 1, i - 1)
              fp == SubSeq(s, i + 1, Len(s))
          IN IF AllDigits(ip) /\ AllDigits(fp) /\ Len(ip) + Len(fp) > 0
             THEN Fin(DigitsVal(ip \o fp, 0), Pow10(Len(fp)))
             ELSE NaN

\* Number(string): white space is trimmed, the empty string is 0
CharsToNum(s) ==
  LET u == TrimRight(TrimLeft(s))
  IN IF u = <<>> THEN Num(0)
     ELSE IF u[1] = "-" THEN NumNeg(UnsignedToNum(Tail(u)))
     ELSE IF u[1] = "+" THEN UnsignedToNum(Tail(u))
     ELSE UnsignedToNum(u)

\* Number(v)
ToNumber(v) ==
  CASE v.t = "undefined" -> NaN
    [] v.t = "null" -> Num(0)
    [] v.t = "boolean" -> IF v.b THEN Num(1) ELSE Num(0)
    [] v.t = "number" -> v
    [] v.t = "string" -> Invoke("CharsToNum", <<v.v>>)
    [] v.t = "date" -> v.v
    [] OTHER -> NaN

\* String(v); a Date or an Error prints as a marker followed by its content
ToStringChars(v) ==
  CASE v.t = "undefined" -> <<"u", "n", "d", "e", "f", "i", "n", "e", "d">>
    [] v.t = "null" -> <<"n", "u", "l", "l">>
    [] v.t = "boolean" -> IF v.b THEN <<"t", "r", "u", "e">> ELSE <<"f", "a", "l", "s", "e">>
    [] v.t = "number" -> NumToChars(v)
    [] v.t = "string" -> v.v
    [] v.t = "date" -> <<"D">> \o NumToChars(v.v)
    [] OTHER -> <<"E">>
ToStr(v) == Str(Invoke("ToStringChars", <<v>>))

\* the truthiness of a value
Truthy(v) ==
  CASE v.t = "undefined" -> FALSE
    [] v.t = "null" -> FALSE
    [] v.t = "boolean" -> v.b
    [] v.t = "number" -> ~(v.k = "nan" \/ (v.k = "fin" /\ v.n = 0))
    [] v.t = "string" -> v.v # <<>>
    [] OTHER -> TRUE

\* isNaN(v), the global function
IsNaNGlobal(v) == IsNaNNum(Invoke("ToNumber", <<v>>))
\* v !== v
IsNaNValue(v) == v.t = "number" /\ v.k = "nan"
IsObject(v) == v.t \in {"date", "error"}

\* a === b
StrictEq(a, b) ==
  CASE a.t # b.t -> FALSE
    [] a.t = "number" -> NumEq(a, b)
    [] IsObject(a) -> a.id # 0 /\ a = b
    [] OTHER -> a = b

\* ------------------------------------------------------------------------
\* Helpers of the surrounding system used by the runtime
\* ------------------------------------------------------------------------

\* SC.empty: null, undefined or the empty string
SCEmpty(v) == v.t \in {"null", "undefined"} \/ (v.t = "string" /\ v.v = <<>>)

\* DG.Formula.whiteSpaceRegExp.test(v) for a string v
IsSpaceStr(v) ==
  v.t = "string" /\ v.v # <<>> /\ \A i \in 1..Len(v.v) : IsSpaceChar(v.v[i])

\* DG.isDate: a Date object
IsDate(v) == v.t = "date"

\* the date-formatted strings of the model: digit "/" digit, month/day of year 0
IsDateChars(s) == Len(s) = 3 /\ IsDigit(s[1]) /\ s[2] = "/" /\ IsDigit(s[3])
DateCharsSeconds(s) == DigitVal(s[1]) * 100 + DigitVal(s[3])

\* DG.isDateString
IsDateString(v) == v.t = "string" /\ IsDateChars(v.v)

\* DG.createDate: a Date from a Date, a date string or a finite number of
\* seconds; nothing for any other value
CreateDate(v) ==
  CASE v.t = "date" -> v
    [] IsDateString(v) -> DateV(Num(DateCharsSeconds(v.v)), 0)
    [] v.t = "number" /\ v.k \in {"fin", "irr"} -> DateV(v, 0)
    [] OTHER -> Undef

\* ------------------------------------------------------------------------
\* The type-coercion runtime
\* ------------------------------------------------------------------------

\* the number classification of one operand of arithmeticStarter
StarterNum(v) ==
  IF ~SCEmpty(v) /\ ~IsSpaceStr(v)
  THEN (IF IsNaNGlobal(v) THEN Invoke("ToNumber", <<CreateDate(v)>>) ELSE Invoke("ToNumber", <<v>>))
  ELSE NaN

\* an arithmeticStarter that does not look for a NaN operand
arithmeticStarter_NoNaNCheck(iOperand1, iOperand2) ==
  LET isSpaceStr1 == IsSpaceStr(iOperand1)
      isSpaceStr2 == IsSpaceStr(iOperand2)
      num1 == Invoke("StarterNum", <<iOperand1>>)
      num2 == Invoke("StarterNum", <<iOperand2>>)
      result ==
        [t |-> "starter",
         empty1 |-> SCEmpty(iOperand1), empty2 |-> SCEmpty(iOperand2),
         isDate1 |-> IsDate(iOperand1) \/ (~isSpaceStr1 /\ IsDateString(iOperand1)),
         isDate2 |-> IsDate(iOperand2) \/ (~isSpaceStr2 /\ IsDateString(iOperand2)),
         num1 |-> num1, num2 |-> num2,
         isNumeric1 |-> ~IsNaNNum(num1), isNumeric2 |-> ~IsNaNNum(num2)]
  IN IF iOperand1.t = "error" THEN iOperand1
     ELSE IF iOperand2.t = "error" THEN iOperand2
     ELSE result

\* an arithmeticStarter that looks for a NaN operand before the error operands
arithmeticStarter_NaNFirst(iOperand1, iOperand2) ==
  LET isSpaceStr1 == IsSpaceStr(iOperand1)
      isSpaceStr2 == IsSpaceStr(iOperand2)
      num1 == Invoke("StarterNum", <<iOperand1>>)
      num2 == Invoke("StarterNum", <<iOperand2>>)
      result ==
        [t |-> "starter",
         empty1 |-> SCEmpty(iOperand1), empty2 |-> SCEmpty(iOperand2),
         isDate1 |-> IsDate(iOperand1) \/ (~isSpaceStr1 /\ IsDateString(iOperand1)),
         isDate2 |-> IsDate(iOperand2) \/ (~isSpaceStr2 /\ IsDateString(iOperand2)),
         num1 |-> num1, num2 |-> num2,
         isNumeric1 |-> ~IsNaNNum(num1), isNumeric2 |-> ~IsNaNNum(num2)]
  IN IF IsNaNValue(iOperand1) \/ IsNaNValue(iOperand2) THEN NaN
     ELSE IF iOperand1.t = "error" THEN iOperand1
     ELSE IF iOperand2.t = "error" THEN iOperand2
     ELSE result

\* DG.Formula.arithmeticStarter: the classification record, the first error
\* operand, or NaN
arithmeticStarter(iOperand1, iOperand2) ==
  LET isSpaceStr1 == IsSpaceStr(iOperand1)
      isSpaceStr2 == IsSpaceStr(iOperand2)
      num1 == Invoke("StarterNum", <<iOperand1>>)
      num2 == Invoke("StarterNum", <<iOperand2>>)
      result ==
        [t |-> "starter",
         empty1 |-> SCEmpty(iOperand1), empty2 |-> SCEmpty(iOperand2),
         isDate1 |-> IsDate(iOperand1) \/ (~isSpaceStr1 /\ IsDateString(iOperand1)),
         isDate2 |-> IsDate(iOperand2) \/ (~isSpaceStr2 /\ IsDateString(iOperand2)),
         num1 |-> num1, num2 |-> num2,
         isNumeric1 |-> ~IsNaNNum(num1), isNumeric2 |-> ~IsNaNNum(num2)]
  IN IF iOperand1.t = "error" THEN iOperand1
     ELSE IF iOperand2.t = "error" THEN iOperand2
     ELSE IF IsNaNValue(iOperand1) \/ IsNaNValue(iOperand2) THEN NaN
     ELSE result

\* a property of iResult read as a condition: undefined (falsy) on anything
\* but the classification record
Flag(iResult, name) == iResult.t = "starter" /\ iResult[name]

\* an arithmeticFinisher without the rule for two empty operands
arithmeticFinisher_NoBothEmpty(iResult, iOperator) ==
  IF (Flag(iResult, "empty1") /\ Flag(iResult, "isNumeric2"))
     \/ (Flag(iResult, "isNumeric1") /\ Flag(iResult, "empty2")) THEN Str(<<>>)
  ELSE Throw("DG.TypeError", iOperator.v)

\* DG.Formula.arithmeticFinisher
arithmeticFinisher(iResult, iOperator) ==
  IF Flag(iResult, "empty1") /\ Flag(iResult, "empty2") THEN Str(<<>>)
  ELSE IF (Flag(iResult, "empty1") /\ Flag(iResult, "isNumeric2"))
          \/ (Flag(iResult, "isNumeric1") /\ Flag(iResult, "empty2")) THEN Str(<<>>)
  ELSE Throw("DG.TypeError", iOperator.v)

\* a stringFinisher without the rule for an empty and a numeric operand
stringFinisher_NoEmptyNumeric(iResult, iOperand1, iOperand2, iOperator) ==
  IF iResult.t \in {"null", "undefined"} THEN Throw("TypeError", <<>>)
  ELSE IF Flag(iResult, "empty1") /\ Flag(iResult, "empty2") THEN Str(<<>>)
  ELSE LET s1 == Invoke("ToStringChars", <<iOperand1>>)
           s2 == Invoke("ToStringChars", <<iOperand2>>)
       IN CASE iOperator = Str(<<"+">>) -> Str(s1 \o s2)
            [] iOperator = Str(<<"<">>) -> Bool(SeqLt(s1, s2))
            [] iOperator = Str(<<"<", "=">>) -> Bool(SeqLt(s1, s2) \/ s1 = s2)
            [] OTHER -> Undef

\* DG.Formula.stringFinisher; reading a property of null or undefined throws
stringFinisher(iResult, iOperand1, iOperand2, iOperator) ==
  IF iResult.t \in {"null", "undefined"} THEN Throw("TypeError", <<>>)
  ELSE IF Flag(iResult, "empty1") /\ Flag(iResult, "empty2") THEN Str(<<>>)
  ELSE IF (Flag(iResult, "empty1") /\ Flag(iResult, "isNumeric2"))
          \/ (Flag(iResult, "isNumeric1") /\ Flag(iResult, "empty2")) THEN Str(<<>>)
  ELSE LET s1 == Invoke("ToStringChars", <<iOperand1>>)
           s2 == Invoke("ToStringChars", <<iOperand2>>)
       IN CASE iOperator = Str(<<"+">>) -> Str(s1 \o s2)
            [] iOperator = Str(<<"<">>) -> Bool(SeqLt(s1, s2))
            [] iOperator = Str(<<"<", "=">>) -> Bool(SeqLt(s1, s2) \/ s1 = s2)
            [] OTHER -> Undef

\* arithmeticStarter's answer ends the operation: an error or a NaN
StarterEnds(result) == result.t # "starter"

\* DG.Formula.add
add(iOperand1, iOperand2) ==
  LET result == Invoke("arithmeticStarter", <<iOperand1, iOperand2>>)
  IN IF StarterEnds(result) THEN result
     ELSE IF result.isNumeric1 /\ result.isNumeric2 THEN
       (IF result.isDate1 # result.isDate2
        THEN CreateDate(NumAdd(result.num1, result.num2))
        ELSE NumAdd(result.num1, result.num2))
     ELSE IF result.empty1 /\ result.empty2 THEN Str(<<>>)
     ELSE IF (result.empty1 /\ result.isNumeric2) \/ (result.isNumeric1 /\ result.empty2)
       THEN Str(<<>>)
     ELSE IF result.empty1 /\ ~result.empty2 THEN Invoke("ToStr", <<iOperand2>>)
     ELSE IF ~result.empty1 /\ result.empty2 THEN Invoke("ToStr", <<iOperand1>>)
     ELSE Invoke("stringFinisher", <<iOperand1, iOperand2, Str(<<"+">>), Undef>>)

\* a subtract that makes a date whenever exactly one operand is a date, as add does
subtract_DateEitherSide(iOperand1, iOperand2) ==
  LET result == Invoke("arithmeticStarter", <<iOperand1, iOperand2>>)
  IN IF StarterEnds(result) THEN result
     ELSE IF result.isNumeric1 /\ result.isNumeric2 THEN
       (IF result.isDate1 # result.isDate2
        THEN CreateDate(NumSub(result.num1, result.num2))
        ELSE NumSub(result.num1, result.num2))
     ELSE Invoke("arithmeticFinisher", <<result, Str(<<"U+2212">>)>>)

\* DG.Formula.subtract
subtract(iOperand1, iOperand2) ==
  LET result == Invoke("arithmeticStarter", <<iOperand1, iOperand2>>)
  IN IF StarterEnds(result) THEN result
     ELSE IF result.isNumeric1 /\ result.isNumeric2 THEN
       (IF result.isDate1 /\ ~result.isDate2
        THEN CreateDate(NumSub(result.num1, result.num2))
        ELSE NumSub(result.num1, result.num2))
     ELSE Invoke("arithmeticFinisher", <<result, Str(<<"U+2212">>)>>)

\* DG.Formula.lessThan
lessThan(iOperand1, iOperand2) ==
  LET result == Invoke("arithmeticStarter", <<iOperand1, iOperand2>>)
  IN IF StarterEnds(result) THEN result
     ELSE IF result.isNumeric1 /\ result.isNumeric2
       THEN Bool(NumLt(result.num1, result.num2))
     ELSE Invoke("stringFinisher", <<result, iOperand1, iOperand2, Str(<<"<">>)>>)

\* DG.Formula.lessThanOrEqual
lessThanOrEqual(iOperand1, iOperand2) ==
  LET result == Invoke("arithmeticStarter", <<iOperand1, iOperand2>>)
  IN IF StarterEnds(result) THEN result
     ELSE IF result.isNumeric1 /\ result.isNumeric2
       THEN Bool(NumLe(result.num1, result.num2))
     ELSE Invoke("stringFinisher", <<result, iOperand1, iOperand2, Str(<<"<", "=">>)>>)

\* the number classification of one operand of binaryOperator
BinaryNum(v) == IF ~SCEmpty(v) /\ ~IsSpaceStr(v) THEN Invoke("ToNumber", <<v>>) ELSE NaN

\* a binaryOperator that looks for dates last, after the errors, the NaNs and
\* the empty operands
binaryOperator_DatesLast(iOperator, iOperand1, iOperand2) ==
  LET empty1 == SCEmpty(iOperand1)
      empty2 == SCEmpty(iOperand2)
      isDate1 == IsDate(iOperand1) \/ (~IsSpaceStr(iOperand1) /\ IsDateString(iOperand1))
      isDate2 == IsDate(iOperand2) \/ (~IsSpaceStr(iOperand2) /\ IsDateString(iOperand2))
      num1 == Invoke("BinaryNum", <<iOperand1>>)
      num2 == Invoke("BinaryNum", <<iOperand2>>)
      isNumeric1 == ~IsNaNNum(num1)
      isNumeric2 == ~IsNaNNum(num2)
  IN IF iOperand1.t = "error" THEN iOperand1
     ELSE IF iOperand2.t = "error" THEN iOperand2
     ELSE IF IsNaNValue(iOperand1) \/ IsNaNValue(iOperand2) THEN NaN
     ELSE IF empty1 /\ empty2 THEN Str(<<>>)
     ELSE IF (empty1 /\ isNumeric2) \/ (isNumeric1 /\ empty2) THEN Str(<<>>)
     ELSE IF isDate1 \/ isDate2 THEN Throw("DG.TypeError", iOperator)
     ELSE IF isNumeric1 /\ isNumeric2 THEN
       CASE iOperator = <<"*">> -> NumMul(num1, num2)
         [] iOperator = <<"/">> -> NumDiv(num1, num2)
         [] iOperator = <<"%">> -> Invoke("NumRem", <<num1, num2>>)
         [] iOperator = <<"^">> -> Invoke("NumPow", <<num1, num2>>)
         [] OTHER -> Throw("TypeError", <<>>)
     ELSE Throw("DG.TypeError", iOperator)

\* DG.Formula.binaryOperator; iOperator is the operator's characters
binaryOperator(iOperator, iOperand1, iOperand2) ==
  LET empty1 == SCEmpty(iOperand1)
      empty2 == SCEmpty(iOperand2)
      isDate1 == IsDate(iOperand1) \/ (~IsSpaceStr(iOperand1) /\ IsDateString(iOperand1))
      isDate2 == IsDate(iOperand2) \/ (~IsSpaceStr(iOperand2) /\ IsDateString(iOperand2))
      num1 == Invoke("BinaryNum", <<iOperand1>>)
      num2 == Invoke("BinaryNum", <<iOperand2>>)
      isNumeric1 == ~IsNaNNum(num1)
      isNumeric2 == ~IsNaNNum(num2)
  IN IF isDate1 \/ isDate2 THEN Throw("DG.TypeError", iOperator)
     ELSE IF isNumeric1 /\ isNumeric2 THEN
       CASE iOperator = <<"*">> -> NumMul(num1, num2)
         [] iOperator = <<"/">> -> NumDiv(num1, num2)
         [] iOperator = <<"%">> -> Invoke("NumRem", <<num1, num2>>)
         [] iOperator = <<"^">> -> Invoke("NumPow", <<num1, num2>>)
         \* new SyntaxError(key).loc(op): an Error object has no loc method
         [] OTHER -> Throw("TypeError", <<>>)
     ELSE IF iOperand1.t = "error" THEN iOperand1
     ELSE IF iOperand2.t = "error" THEN iOperand2
     ELSE IF IsNaNValue(iOperand1) \/ IsNaNValue(iOperand2) THEN NaN
     ELSE IF empty1 /\ empty2 THEN Str(<<>>)
     ELSE IF (empty1 /\ isNumeric2) \/ (isNumeric1 /\ empty2) THEN Str(<<>>)
     ELSE Throw("DG.TypeError", iOperator)

\* ------------------------------------------------------------------------
\* Syntax trees (the nodes the PEG.js parser produces)
\* ------------------------------------------------------------------------

BooleanLiteral(b) == [t |-> "node", type |-> "BooleanLiteral", value |-> Bool(b)]
NumericLiteral(n) == [t |-> "node", type |-> "NumericLiteral", value |-> Num(n)]
StringLiteral(s) == [t |-> "node", type |-> "StringLiteral", value |-> Str(s)]
Variable(name) == [t |-> "node", type |-> "Variable", name |-> name]
FunctionCall(name, args) ==
  [t |-> "node", type |-> "FunctionCall", name |-> Variable(name), args |-> args]
UnaryExpression(op, e) ==
  [t |-> "node", type |-> "UnaryExpression", operator |-> op, expression |-> e]
BinaryExpression(op, l, r) ==
  [t |-> "node", type |-> "BinaryExpression", operator |-> op, left |-> l, right |-> r]
ConditionalExpression(c, a, b) ==
  [t |-> "node", type |-> "ConditionalExpression", condition |-> c,
   trueExpression |-> a, falseExpression |-> b]

\* iNode.type; reading it from null or undefined throws, a string has none
HasType(n) == "type" \in DOMAIN n

\* ------------------------------------------------------------------------
\* The formula context (DG.FormulaContext), at its interface
\* ------------------------------------------------------------------------

\* A context is [id, names]: names maps each variable name to the slot of the
\* evaluation-time context it is bound to, 0 when the name is unbound.
\* An evaluation-time context holds the sequence of the slots' values.
FnNames == {"f", "mean"}
AggregateFns == {"mean"}

EvalContext(slots) == [t |-> "evalContext", slots |-> slots]

Call(fn, name, args) == [call |-> fn, name |-> name, args |-> args]
\* a result with the context calls made to get it, in order
R(r, log) == [r |-> r, log |-> log]

\* context.evaluateVariable(name, evalContext)
EvaluateVariable(iContext, name, iEvalContext) ==
  IF iContext.names[name] = 0 THEN Throw("VarReferenceError", <<name>>)
  ELSE IF iEvalContext = Undef THEN Throw("TypeError", <<name>>)
  ELSE iEvalContext.slots[iContext.names[name]]

\* context.evaluateFunction(name, args): f and mean answer their first argument
EvaluateFunction(iContext, name, args) ==
  IF name \notin FnNames THEN Throw("FuncReferenceError", <<name>>)
  ELSE IF args = <<>> THEN Undef ELSE args[1]

\* ------------------------------------------------------------------------
\* The tree-walking evaluator
\* ------------------------------------------------------------------------

\* +value, -value, !value
UnaryPlus(v) == Invoke("ToNumber", <<v>>)
UnaryMinus(v) == NumNeg(Invoke("ToNumber", <<v>>))
UnaryNot(v) == Bool(~Truthy(v))

\* evaluateParseTree's visitUnaryExpression, applied to the operand's value
EvalUnaryOperator(operator, value) ==
  CASE operator = <<"+">> -> Invoke("UnaryPlus", <<value>>)
    [] operator = <<"-">> -> Invoke("UnaryMinus", <<value>>)
    [] operator = <<"!">> -> UnaryNot(value)
    [] OTHER -> Undef

\* evaluateParseTree's visitBinaryExpression, applied to the operands' values
EvalBinaryOperator(operator, left, right) ==
  CASE operator \in {<<"^">>, <<"*">>, <<"/">>, <<"%">>} ->
         Invoke("binaryOperator", <<operator, left, right>>)
    [] operator = <<"+">> -> Invoke("add", <<left, right>>)
    [] operator = <<"-">> -> Invoke("subtract", <<left, right>>)
    [] operator = <<"<">> -> Invoke("lessThan", <<left, right>>)
    [] operator = <<">">> -> Invoke("lessThan", <<right, left>>)
    [] operator = <<"<", "=">> -> Invoke("lessThanOrEqual", <<left, right>>)
    [] operator = <<">", "=">> -> Invoke("lessThanOrEqual", <<right, left>>)
    [] operator \in {<<"=", "=">>, <<"=", "=", "=">>} -> Bool(StrictEq(left, right))
    [] operator \in {<<"!", "=">>, <<"!", "=", "=">>} -> Bool(~StrictEq(left, right))
    [] operator = <<"&", "&">> -> IF Truthy(left) THEN right ELSE left
    [] operator = <<"|", "|">> -> IF Truthy(left) THEN left ELSE right
    [] OTHER -> Throw("SyntaxError", operator)

RECURSIVE evaluateParseTree(_, _, _)
RECURSIVE EvalArgs(_, _, _, _, _)

\* the loop of visitFunctionCall: the values of the arguments from the i-th on,
\* appended to args; stops at the first argument that throws (r is the throw)
EvalArgs(nodes, i, iContext, iEvalContext, acc) ==
  IF i > Len(nodes) THEN acc
  ELSE LET a == Invoke("evaluateParseTree", <<nodes[i], iContext, iEvalContext>>)
       IN IF IsThrow(a.r) THEN [args |-> acc.args, r |-> a.r, log |-> acc.log \o a.log]
          ELSE Invoke("EvalArgs", <<nodes, i + 1, iContext, iEvalContext,
                        [args |-> Append(acc.args, a.r), r |-> Undef,
                         log |-> acc.log \o a.log]>>)

\* a visitConditionalExpression that visits both branches before it chooses
EvalConditionalExpression_BothBranches(iNode, iContext, iEvalContext) ==
  LET cond == Invoke("evaluateParseTree", <<iNode.condition, iContext, iEvalContext>>)
      a == Invoke("evaluateParseTree", <<iNode.trueExpression, iContext, iEvalContext>>)
      b == Invoke("evaluateParseTree", <<iNode.falseExpression, iContext, iEvalContext>>)
  IN IF IsThrow(cond.r) THEN cond
     ELSE R(IF Truthy(cond.r) THEN a.r ELSE b.r, cond.log \o a.log \o b.log)

\* evaluateParseTree's visitConditionalExpression
EvalConditionalExpression(iNode, iContext, iEvalContext) ==
  LET cond == Invoke("evaluateParseTree", <<iNode.condition, iContext, iEvalContext>>)
  IN IF IsThrow(cond.r) THEN cond
     ELSE LET taken == IF Truthy(cond.r) THEN iNode.trueExpression
                                          ELSE iNode.falseExpression
              branch == Invoke("evaluateParseTree", <<taken, iContext, iEvalContext>>)
          IN R(branch.r, cond.log \o branch.log)

\* DG.Formula.evaluateParseTree: visit(iParseTree)
evaluateParseTree(iNode, iContext, iEvalContext) ==
  IF iNode \in {NullV, Undef} THEN R(Throw("TypeError", <<"type">>), <<>>)
  ELSE IF ~HasType(iNode) THEN R(Undef, <<>>)
  ELSE CASE iNode.type \in {"BooleanLiteral", "NumericLiteral", "StringLiteral"} ->
         R(iNode.value, <<>>)
    [] iNode.type = "Variable" ->
         R(EvaluateVariable(iContext, iNode.name, iEvalContext),
           <<Call("evaluateVariable", iNode.name, <<>>)>>)
    [] iNode.type = "FunctionCall" ->
         LET a == Invoke("EvalArgs", <<iNode.args, 1, iContext, iEvalContext,
                           [args |-> <<>>, r |-> Undef, log |-> <<>>]>>)
         IN IF IsThrow(a.r) THEN R(a.r, a.log)
            ELSE R(EvaluateFunction(iContext, iNode.name.name, a.args),
                   Append(a.log, Call("evaluateFunction", iNode.name.name, a.args)))
    [] iNode.type = "UnaryExpression" ->
         LET value == Invoke("evaluateParseTree", <<iNode.expression, iContext, iEvalContext>>)
         IN IF IsThrow(value.r) THEN value
            ELSE R(Invoke("EvalUnaryOperator", <<iNode.operator, value.r>>), value.log)
    [] iNode.type = "BinaryExpression" ->
         LET left == Invoke("evaluateParseTree", <<iNode.left, iContext, iEvalContext>>)
         IN IF IsThrow(left.r) THEN left
            ELSE LET right == Invoke("evaluateParseTree", <<iNode.right, iContext, iEvalContext>>)
                 IN IF IsThrow(right.r) THEN R(right.r, left.log \o right.log)
                    ELSE R(Invoke("EvalBinaryOperator", <<iNode.operator, left.r, right.r>>),
                           left.log \o right.log)
    [] iNode.type = "ConditionalExpression" ->
         Invoke("EvalConditionalExpression", <<iNode, iContext, iEvalContext>>)
    [] OTHER -> R(Undef, <<>>)

\* ------------------------------------------------------------------------
\* The code generator
\* ------------------------------------------------------------------------

\* The context's bookkeeping during one compilation: the calls made to it, in
\* order, and its stack of open function contexts.
CompileState(log, open) == [log |-> log, open |-> open]
Logged(cs, call) == CompileState(Append(cs.log, call), cs.open)
\* a generated fragment (or a throw) with the context's bookkeeping after it
G(r, cs) == [r |-> r, cs |-> cs]

\* context.getAggregateFunctionIndices(): the open aggregate function contexts
GetAggregateFunctionIndices(cs) ==
  SelectSeq([i \in 1..Len(cs.open) |-> IF cs.open[i].isAggregate THEN Num(i) ELSE Num(0)],
            LAMBDA i : i # Num(0))

\* context.compileVariable(name, aggFnIndices): code that reads the slot the
\* name is bound to from the evaluation-time context e
CompileVariable(iContext, name, aggFnIndices) ==
  IF iContext.names[name] = 0 THEN Throw("VarReferenceError", <<name>>)
  ELSE Str(<<"e.get", "(">> \o NatToChars(iContext.names[name]) \o <<")">>)

RECURSIVE JoinArgs(_)
\* an array of fragments converted to a string: joined by commas
JoinArgs(args) ==
  IF args = <<>> THEN <<>>
  ELSE IF Len(args) = 1 THEN Invoke("ToStringChars", <<args[1]>>)
  ELSE Invoke("ToStringChars", <<args[1]>>) \o <<",">> \o JoinArgs(Tail(args))

FnAtom(name) == IF name = "mean" THEN "c.fn.mean" ELSE "c.fn.f"
\* context.compileFunction(name, args, aggFnIndices): code that calls the
\* function through the context c
CompileFunction(iContext, name, args, aggFnIndices) ==
  IF name \notin FnNames THEN Throw("FuncReferenceError", <<name>>)
  ELSE Str(<<FnAtom(name), "(">> \o JoinArgs(args) \o <<")">>)

RECURSIVE EscapeQuotes(_)
\* value.replace(/"/g, "\\\"")
EscapeQuotes(s) ==
  IF s = <<>> THEN <<>>
  ELSE (IF s[1] = "\"" THEN <<"\\", "\"">> ELSE <<s[1]>>) \o EscapeQuotes(Tail(s))

\* compileToJavaScript's visitBinaryExpression, applied to the operands' text
CompileBinaryOperator(operator, leftTerm, rightTerm) ==
  LET call(fn, a, b) == Str(<<fn, "(">> \o a \o <<",">> \o b \o <<")">>)
  IN CASE operator = <<"+">> -> call("DG.Formula.add", leftTerm, rightTerm)
       [] operator = <<"-">> -> call("DG.Formula.subtract", leftTerm, rightTerm)
       [] operator = <<"<">> -> call("DG.Formula.lessThan", leftTerm, rightTerm)
       [] operator = <<">">> -> call("DG.Formula.lessThan", rightTerm, leftTerm)
       [] operator = <<"<", "=">> ->
            call("DG.Formula.lessThanOrEqual", leftTerm, rightTerm)
       [] operator = <<">", "=">> ->
            call("DG.Formula.lessThanOrEqual", rightTerm, leftTerm)
       [] operator \in {<<"*">>, <<"/">>, <<"%">>, <<"^">>} ->
            Str(<<"DG.Formula.binaryOperator", "(", "\"">> \o operator
                \o <<"\"", ",">> \o leftTerm \o <<",">> \o rightTerm \o <<")">>)
       [] OTHER -> Str(leftTerm \o operator \o rightTerm)

RECURSIVE compileToJavaScript(_, _, _)
RECURSIVE CompileArgs(_, _, _, _)
RECURSIVE visitTerm(_, _, _)

\* a loop of visitFunctionCall that visits the arguments last to first
CompileArgs_Reversed(nodes, i, iContext, acc) ==
  IF i > Len(nodes) THEN acc
  ELSE LET a == Invoke("compileToJavaScript", <<nodes[Len(nodes) + 1 - i], iContext, acc.cs>>)
       IN IF IsThrow(a.r) THEN [args |-> acc.args, r |-> a.r, cs |-> a.cs]
          ELSE Invoke("CompileArgs", <<nodes, i + 1, iContext,
                           [args |-> <<a.r>> \o acc.args, r |-> Undef, cs |-> a.cs]>>)

\* the loop of visitFunctionCall; stops at the first argument that throws
CompileArgs(nodes, i, iContext, acc) ==
  IF i > Len(nodes) THEN acc
  ELSE LET a == Invoke("compileToJavaScript", <<nodes[i], iContext, acc.cs>>)
       IN IF IsThrow(a.r) THEN [args |-> acc.args, r |-> a.r, cs |-> a.cs]
          ELSE Invoke("CompileArgs", <<nodes, i + 1, iContext,
                           [args |-> Append(acc.args, a.r), r |-> Undef, cs |-> a.cs]>>)

\* compileToJavaScript's visitTerm
visitTerm(iNode, iContext, cs) ==
  LET expr == Invoke("compileToJavaScript", <<iNode, iContext, cs>>)
  IN IF IsThrow(expr.r) THEN expr
     ELSE IF iNode.type = "BinaryExpression"
       THEN G(Str(<<"(">> \o Invoke("ToStringChars", <<expr.r>>) \o <<")">>), expr.cs)
     ELSE expr

\* DG.Formula.compileToJavaScript: visit(iParseTree), with the context in
\* the bookkeeping state cs
compileToJavaScript(iNode, iContext, cs) ==
  CASE iNode.type \in {"BooleanLiteral", "NumericLiteral"} -> G(iNode.value, cs)
    [] iNode.type = "StringLiteral" ->
         G(Str(<<"\"">> \o EscapeQuotes(iNode.value.v) \o <<"\"">>), cs)
    [] iNode.type = "Variable" ->
         LET aggFnIndices == GetAggregateFunctionIndices(cs)
         IN G(CompileVariable(iContext, iNode.name, aggFnIndices),
              Logged(Logged(cs, Call("getAggregateFunctionIndices", "", aggFnIndices)),
                     Call("compileVariable", iNode.name, aggFnIndices)))
    [] iNode.type = "FunctionCall" ->
         LET fnName == iNode.name.name
             isAggFn == fnName \in AggregateFns
             begun == CompileState(
                        cs.log \o <<Call("isAggregate", fnName, <<>>),
                                    Call("beginFunctionContext", fnName, <<>>)>>,
                        Append(cs.open, [name |-> fnName, isAggregate |-> isAggFn]))
             a == Invoke("CompileArgs", <<iNode.args, 1, iContext,
                              [args |-> <<>>, r |-> Undef, cs |-> begun]>>)
             aggFnIndices == GetAggregateFunctionIndices(a.cs)
             ended == CompileState(
                        a.cs.log \o <<Call("getAggregateFunctionIndices", "", aggFnIndices),
                                      Call("endFunctionContext", fnName, <<>>),
                                      Call("compileFunction", fnName, aggFnIndices)>>,
                        SubSeq(a.cs.open, 1, Len(a.cs.open) - 1))
         IN IF IsThrow(a.r) THEN G(a.r, a.cs)
            ELSE G(Invoke("CompileFunction", <<iContext, fnName, a.args, aggFnIndices>>), ended)
    [] iNode.type = "UnaryExpression" ->
         LET term == Invoke("visitTerm", <<iNode.expression, iContext, cs>>)
         IN IF IsThrow(term.r) THEN term
            ELSE G(Str(iNode.operator \o Invoke("ToStringChars", <<term.r>>)), term.cs)
    [] iNode.type = "BinaryExpression" ->
         LET leftTerm == Invoke("visitTerm", <<iNode.left, iContext, cs>>)
         IN IF IsThrow(leftTerm.r) THEN leftTerm
            ELSE LET rightTerm == Invoke("visitTerm", <<iNode.right, iContext, leftTerm.cs>>)
                 IN IF IsThrow(rightTerm.r) THEN rightTerm
                    ELSE G(CompileBinaryOperator(iNode.operator,
                                                 Invoke("ToStringChars", <<leftTerm.r>>),
                                                 Invoke("ToStringChars", <<rightTerm.r>>)),
                           rightTerm.cs)
    [] iNode.type = "ConditionalExpression" ->
         LET c == Invoke("visitTerm", <<iNode.condition, iContext, cs>>)
         IN IF IsThrow(c.r) THEN c
            ELSE LET a == Invoke("visitTerm", <<iNode.trueExpression, iContext, c.cs>>)
                 IN IF IsThrow(a.r) THEN a
                    ELSE LET b == Invoke("visitTerm", <<iNode.falseExpression, iContext, a.cs>>)
                         IN IF IsThrow(b.r) THEN b
                            ELSE G(Str(<<"(">> \o Invoke("ToStringChars", <<c.r>>) \o <<"?">>
                                       \o Invoke("ToStringChars", <<a.r>>) \o <<":">>
                                       \o Invoke("ToStringChars", <<b.r>>) \o <<")">>), b.cs)
    [] OTHER -> G(Undef, cs)

\* ------------------------------------------------------------------------
\* The host language: reading generated text back as an expression
\* ------------------------------------------------------------------------

\* Generated text is a sequence of characters; the dotted names the generator
\* and the context emit are single elements of it.
Letters ==
  {"a", "b", "c", "d", "e", "f", "g", "h", "i", "j", "k", "l", "m", "n", "o", "p",
   "q", "r", "s", "t", "u", "v", "w", "x", "y", "z", "D", "E", "I", "N"}
RuntimeNames ==
  {"DG.Formula.add", "DG.Formula.subtract", "DG.Formula.lessThan",
   "DG.Formula.lessThanOrEqual", "DG.Formula.binaryOperator"}
ContextNames == {"e.get", "c.fn.f", "c.fn.mean"}
IsIdentStart(c) == c \in Letters \cup RuntimeNames \cup ContextNames
IsIdentPart(c) == IsIdentStart(c) \/ IsDigit(c)

Punctuators3 == {<<"=", "=", "=">>, <<"!", "=", "=">>}
Punctuators2 ==
  {<<"=", "=">>, <<"!", "=">>, <<"<", "=">>, <<">", "=">>, <<"&", "&">>,
   <<"|", "|">>, <<"+", "+">>, <<"-", "-">>, <<"*", "*">>}
Punctuators1 ==
  {<<"(">>, <<")">>, <<",">>, <<"?">>, <<":">>, <<"!">>, <<"+">>, <<"-">>,
   <<"*">>, <<"/">>, <<"%">>, <<"<">>, <<">">>, <<"&">>, <<"|">>, <<"^">>, <<"=">>}

Token(k, v) == [k |-> k, v |-> v]
BadToken == Token("bad", <<>>)

RECURSIVE DigitsEnd(_, _)
\* the index after the digits that start at i
DigitsEnd(text, i) ==
  IF i <= Len(text) /\ IsDigit(text[i]) THEN DigitsEnd(text, i + 1) ELSE i
RECURSIVE IdentEnd(_, _)
IdentEnd(text, i) ==
  IF i <= Len(text) /\ IsIdentPart(text[i]) THEN IdentEnd(text, i + 1) ELSE i

RECURSIVE StringBody(_, _, _)
\* the value of the string literal whose body starts at i, and the index after
\* its closing quote; next = 0 when the literal is not closed on its line
StringBody(text, i, acc) ==
  IF i > Len(text) \/ text[i] = "\n" THEN [v |-> acc, next |-> 0]
  ELSE IF text[i] = "\"" THEN [v |-> acc, next |-> i + 1]
  ELSE IF text[i] = "\\" THEN
    (IF i + 1 > Len(text) THEN [v |-> acc, next |-> 0]
     ELSE IF text[i + 1] = "\n" THEN StringBody(text, i + 2, acc)
     ELSE StringBody(text, i + 2,
                     Append(acc, IF text[i + 1] = "n" THEN "\n" ELSE text[i + 1])))
  ELSE StringBody(text, i + 1, Append(acc, text[i]))

\* the token that starts at i, and the index after it
NextToken(text, i) ==
  LET c == text[i]
      has(n) == i + n - 1 <= Len(text)
  IN CASE IsDigit(c) ->
            LET j == DigitsEnd(text, i)
                k == IF j <= Len(text) /\ text[j] = "." THEN DigitsEnd(text, j + 1) ELSE j
            IN IF k <= Len(text) /\ IsIdentStart(text[k])
               THEN [tok |-> BadToken, next |-> k]
               ELSE [tok |-> Token("num", UnsignedToNum(SubSeq(text, i, k - 1))),
                     next |-> k]
       [] IsIdentStart(c) ->
            LET j == IdentEnd(text, i)
            IN [tok |-> Token("id", SubSeq(text, i, j - 1)), next |-> j]
       [] c = "\"" ->
            LET b == StringBody(text, i + 1, <<>>)
            IN IF b.next = 0 THEN [tok |-> BadToken, next |-> Len(text) + 1]
               ELSE [tok |-> Token("str", b.v), next |-> b.next]
       [] has(3) /\ SubSeq(text, i, i + 2) \in Punctuators3 ->
            [tok |-> Token("punct", SubSeq(text, i, i + 2)), next |-> i + 3]
       [] has(2) /\ SubSeq(text, i, i + 1) \in Punctuators2 ->
            [tok |-> Token("punct", SubSeq(text, i, i + 1)), next |-> i + 2]
       [] <<c>> \in Punctuators1 -> [tok |-> Token("punct", <<c>>), next |-> i + 1]
       [] OTHER -> [tok |-> BadToken, next |-> i + 1]

RECURSIVE Lex(_, _)
\* the tokens of the text from index i on
Lex(text, i) ==
  IF i > Len(text) THEN <<>>
  ELSE IF IsSpaceChar(text[i]) THEN Invoke("Lex", <<text, i + 1>>)
  ELSE LET t == Invoke("NextToken", <<text, i>>) IN <<t.tok>> \o Invoke("Lex", <<text, t.next>>)

\* the binding strength of an infix operator of the host language, 0 for none
InfixPrecedence(op) ==
  CASE op = <<"|", "|">> -> 1
    [] op = <<"&", "&">> -> 2
    [] op = <<"|">> -> 3
    [] op = <<"^">> -> 4
    [] op = <<"&">> -> 5
    [] op \in {<<"=", "=">>, <<"!", "=">>, <<"=", "=", "=">>, <<"!", "=", "=">>} -> 6
    [] op \in {<<"<">>, <<">">>, <<"<", "=">>, <<">", "=">>} -> 7
    [] op \in {<<"+">>, <<"-">>} -> 9
    [] op \in {<<"*">>, <<"/">>, <<"%">>} -> 10
    [] op = <<"*", "*">> -> 11
    [] OTHER -> 0

Keywords ==
  [w \in {<<"t", "r", "u", "e">>, <<"f", "a", "l", "s", "e">>, <<"n", "u", "l", "l">>,
          <<"u", "n", "d", "e", "f", "i", "n", "e", "d">>, <<"N", "a", "N">>} |->
     CASE w = <<"t", "r", "u", "e">> -> Bool(TRUE)
       [] w = <<"f", "a", "l", "s", "e">> -> Bool(FALSE)
       [] w = <<"n", "u", "l", "l">> -> NullV
       [] w = <<"N", "a", "N">> -> NaN
       [] OTHER -> Undef]

\* a parse: the expression read and the index of the next token, or a failure
Parsed(ast, p) == [ok |-> TRUE, ast |-> ast, p |-> p]
ParseFailed == [ok |-> FALSE, ast |-> Undef, p |-> 0]
IsPunct(ts, p, op) == p <= Len(ts) /\ ts[p].k = "punct" /\ ts[p].v = op

RECURSIVE ParseAssign(_, _)
RECURSIVE ParseInfix(_, _, _)
RECURSIVE InfixLoop(_, _, _)
RECURSIVE ParseUnary(_, _)
RECURSIVE ParsePrimary(_, _)
RECURSIVE ParseArguments(_, _, _)

\* a conditional expression, or what is below it
ParseAssign(ts, p) ==
  LET c == Invoke("ParseInfix", <<ts, p, 1>>)
  IN IF ~c.ok \/ ~IsPunct(ts, c.p, <<"?">>) THEN c
     ELSE LET a == Invoke("ParseAssign", <<ts, c.p + 1>>)
          IN IF ~a.ok \/ ~IsPunct(ts, a.p, <<":">>) THEN ParseFailed
             ELSE LET b == Invoke("ParseAssign", <<ts, a.p + 1>>)
                  IN IF ~b.ok THEN ParseFailed
                     ELSE Parsed([k |-> "cond", c |-> c.ast, a |-> a.ast, b |-> b.ast], b.p)

\* an infix expression of operators that bind at least as strongly as min
ParseInfix(ts, p, min) ==
  LET l == Invoke("ParseUnary", <<ts, p>>)
  IN IF ~l.ok THEN l ELSE Invoke("InfixLoop", <<ts, l, min>>)

InfixLoop(ts, l, min) ==
  IF l.p > Len(ts) \/ ts[l.p].k # "punct" THEN l
  ELSE LET op == ts[l.p].v
           prec == InfixPrecedence(op)
       IN IF prec = 0 \/ prec < min THEN l
          ELSE LET r == Invoke("ParseInfix", <<ts, l.p + 1,
                                   IF op = <<"*", "*">> THEN prec ELSE prec + 1>>)
               IN IF ~r.ok THEN ParseFailed
                  ELSE Invoke("InfixLoop", <<ts,
                         Parsed([k |-> "bin", op |-> op, l |-> l.ast, r |-> r.ast], r.p),
                         min>>)

ParseUnary(ts, p) ==
  IF p > Len(ts) THEN ParseFailed
  ELSE IF ts[p].k = "punct" /\ ts[p].v \in {<<"!">>, <<"+">>, <<"-">>} THEN
    LET e == Invoke("ParseUnary", <<ts, p + 1>>)
    IN IF ~e.ok THEN ParseFailed
       ELSE Parsed([k |-> "un", op |-> ts[p].v, e |-> e.ast], e.p)
  ELSE IF ts[p].k = "punct" /\ ts[p].v \in {<<"+", "+">>, <<"-", "-">>} THEN
    \* an increment or decrement needs a reference to assign to
    LET e == Invoke("ParseUnary", <<ts, p + 1>>)
    IN IF ~e.ok \/ e.ast.k # "id" THEN ParseFailed
       ELSE Parsed([k |-> "update", op |-> ts[p].v, e |-> e.ast], e.p)
  ELSE Invoke("ParsePrimary", <<ts, p>>)

ParsePrimary(ts, p) ==
  LET tok == ts[p]
  IN CASE tok.k = "num" -> Parsed([k |-> "lit", v |-> tok.v], p + 1)
       [] tok.k = "str" -> Parsed([k |-> "lit", v |-> Str(tok.v)], p + 1)
       [] tok.k = "id" ->
            IF tok.v \in DOMAIN Keywords
            THEN Parsed([k |-> "lit", v |-> Keywords[tok.v]], p + 1)
            ELSE IF IsPunct(ts, p + 1, <<"(">>)
            THEN Invoke("ParseArguments", <<ts, p + 2, [k |-> "call", fn |-> tok.v, args |-> <<>>]>>)
            ELSE Parsed([k |-> "id", name |-> tok.v], p + 1)
       [] tok.k = "punct" /\ tok.v = <<"(">> ->
            LET e == Invoke("ParseAssign", <<ts, p + 1>>)
            IN IF ~e.ok \/ ~IsPunct(ts, e.p, <<")">>) THEN ParseFailed
               ELSE Parsed(e.ast, e.p + 1)
       [] OTHER -> ParseFailed

\* the arguments of a call from token p on, up to its closing parenthesis
ParseArguments(ts, p, call) ==
  IF IsPunct(ts, p, <<")">>) THEN Parsed(call, p + 1)
  ELSE LET a == Invoke("ParseAssign", <<ts, p>>)
           more == [call EXCEPT !.args = Append(call.args, a.ast)]
       IN IF ~a.ok THEN ParseFailed
          ELSE IF IsPunct(ts, a.p, <<",">>) THEN Invoke("ParseArguments", <<ts, a.p + 1, more>>)
          ELSE IF IsPunct(ts, a.p, <<")">>) THEN Parsed(more, a.p + 1)
          ELSE ParseFailed

\* the body "return <text>": the expression it returns, or a failure
ParseBody(text) ==
  LET ts == Invoke("Lex", <<text, 1>>)
  IN IF \E i \in 1..Len(ts) : ts[i].k = "bad" THEN ParseFailed
     ELSE IF ts = <<>> THEN Parsed([k |-> "lit", v |-> Undef], 1)
     ELSE LET e == Invoke("ParseAssign", <<ts, 1>>)
          IN IF e.ok /\ e.p = Len(ts) + 1 THEN e ELSE ParseFailed

\* ------------------------------------------------------------------------
\* The host language: its native operators and the evaluation of an expression
\* ------------------------------------------------------------------------

\* an object as a primitive: a Date as its number under the hint "number",
\* as its text otherwise; an Error as its text
ToPrimitive(v, hint) ==
  CASE v.t = "date" -> IF hint = "number" THEN v.v ELSE Invoke("ToStr", <<v>>)
    [] v.t = "error" -> Invoke("ToStr", <<v>>)
    [] OTHER -> v

\* a + b
NativeAdd(a, b) ==
  LET pa == Invoke("ToPrimitive", <<a, "default">>)
      pb == Invoke("ToPrimitive", <<b, "default">>)
  IN IF pa.t = "string" \/ pb.t = "string"
     THEN Str(Invoke("ToStringChars", <<pa>>) \o Invoke("ToStringChars", <<pb>>))
     ELSE NumAdd(Invoke("ToNumber", <<pa>>), Invoke("ToNumber", <<pb>>))

\* a < b
NativeLt(a, b) ==
  LET pa == Invoke("ToPrimitive", <<a, "number">>)
      pb == Invoke("ToPrimitive", <<b, "number">>)
  IN IF pa.t = "string" /\ pb.t = "string" THEN SeqLt(pa.v, pb.v)
     ELSE NumLt(Invoke("ToNumber", <<pa>>), Invoke("ToNumber", <<pb>>))

\* a <= b
NativeLe(a, b) ==
  LET pa == Invoke("ToPrimitive", <<a, "number">>)
      pb == Invoke("ToPrimitive", <<b, "number">>)
  IN IF pa.t = "string" /\ pb.t = "string" THEN ~SeqLt(pb.v, pa.v)
     ELSE NumLe(Invoke("ToNumber", <<pa>>), Invoke("ToNumber", <<pb>>))

RECURSIVE LooseEq(_, _)
\* a == b
LooseEq(a, b) ==
  CASE a.t = b.t -> StrictEq(a, b)
    [] a.t \in {"null", "undefined"} -> b.t \in {"null", "undefined"}
    [] b.t \in {"null", "undefined"} -> FALSE
    [] a.t = "boolean" -> Invoke("LooseEq", <<Invoke("ToNumber", <<a>>), b>>)
    [] b.t = "boolean" -> Invoke("LooseEq", <<a, Invoke("ToNumber", <<b>>)>>)
    [] IsObject(a) /\ IsObject(b) -> FALSE
    [] IsObject(a) -> Invoke("LooseEq", <<Invoke("ToPrimitive", <<a, "default">>), b>>)
    [] IsObject(b) -> Invoke("LooseEq", <<a, Invoke("ToPrimitive", <<b, "default">>)>>)
    [] OTHER -> NumEq(Invoke("ToNumber", <<a>>), Invoke("ToNumber", <<b>>))

\* the operand of a bitwise operator: an integer, 0 for what is none
\* (the model's numbers stay within 32 bits)
ToInt(v) ==
  LET n == Invoke("ToNumber", <<Invoke("ToPrimitive", <<v, "number">>)>>)
  IN IF n.k = "fin" THEN Trunc(n) ELSE 0

RECURSIVE BitOp(_, _, _)
\* a & b (and = TRUE) or a | b (and = FALSE) of two naturals
BitOp(a, b, and) ==
  IF a = 0 /\ b = 0 THEN 0
  ELSE 2 * BitOp(a \div 2, b \div 2, and)
       + (IF and THEN (IF a % 2 = 1 /\ b % 2 = 1 THEN 1 ELSE 0)
                 ELSE (IF a % 2 = 1 \/ b % 2 = 1 THEN 1 ELSE 0))

\* an infix operator of the host language that evaluates both operands
NativeInfix(op, a, b) ==
  LET na == Invoke("ToNumber", <<Invoke("ToPrimitive", <<a, "number">>)>>)
      nb == Invoke("ToNumber", <<Invoke("ToPrimitive", <<b, "number">>)>>)
  IN CASE op = <<"+">> -> Invoke("NativeAdd", <<a, b>>)
       [] op = <<"-">> -> NumSub(na, nb)
       [] op = <<"*">> -> NumMul(na, nb)
       [] op = <<"/">> -> NumDiv(na, nb)
       [] op = <<"%">> -> Invoke("NumRem", <<na, nb>>)
       [] op = <<"*", "*">> -> Invoke("NumPow", <<na, nb>>)
       [] op = <<"<">> -> Bool(Invoke("NativeLt", <<a, b>>))
       [] op = <<">">> -> Bool(Invoke("NativeLt", <<b, a>>))
       [] op = <<"<", "=">> -> Bool(Invoke("NativeLe", <<a, b>>))
       [] op = <<">", "=">> -> Bool(Invoke("NativeLe", <<b, a>>))
       [] op = <<"=", "=">> -> Bool(Invoke("LooseEq", <<a, b>>))
       [] op = <<"!", "=">> -> Bool(~Invoke("LooseEq", <<a, b>>))
       [] op = <<"=", "=", "=">> -> Bool(StrictEq(a, b))
       [] op = <<"!", "=", "=">> -> Bool(~StrictEq(a, b))
       \* the bitwise operators, on the naturals of the model
       [] op = <<"&">> /\ Invoke("ToInt", <<a>>) >= 0 /\ Invoke("ToInt", <<b>>) >= 0 ->
            Num(BitOp(Invoke("ToInt", <<a>>), Invoke("ToInt", <<b>>), TRUE))
       [] op = <<"|">> /\ Invoke("ToInt", <<a>>) >= 0 /\ Invoke("ToInt", <<b>>) >= 0 ->
            Num(BitOp(Invoke("ToInt", <<a>>), Invoke("ToInt", <<b>>), FALSE))
       [] OTHER -> Irr

\* a call of a function the generated code names, on its arguments' values
CallNamed(fn, args, iContext, iEvalContext) ==
  LET arg(i) == IF i <= Len(args) THEN args[i] ELSE Undef
  IN CASE fn = <<"DG.Formula.add">> -> R(Invoke("add", <<arg(1), arg(2)>>), <<>>)
       [] fn = <<"DG.Formula.subtract">> -> R(Invoke("subtract", <<arg(1), arg(2)>>), <<>>)
       [] fn = <<"DG.Formula.lessThan">> -> R(Invoke("lessThan", <<arg(1), arg(2)>>), <<>>)
       [] fn = <<"DG.Formula.lessThanOrEqual">> ->
            R(Invoke("lessThanOrEqual", <<arg(1), arg(2)>>), <<>>)
       [] fn = <<"DG.Formula.binaryOperator">> ->
            R(Invoke("binaryOperator", <<Invoke("ToStringChars", <<arg(1)>>), arg(2), arg(3)>>), <<>>)
       [] fn = <<"e.get">> ->
            R(IF iEvalContext = Undef THEN Throw("TypeError", <<"e">>)
              ELSE iEvalContext.slots[Invoke("ToInt", <<arg(1)>>)], <<>>)
       [] fn = <<"c.fn.f">> ->
            R(EvaluateFunction(iContext, "f", args),
              <<Call("evaluateFunction", "f", args)>>)
       [] fn = <<"c.fn.mean">> ->
            R(EvaluateFunction(iContext, "mean", args),
              <<Call("evaluateFunction", "mean", args)>>)
       [] OTHER -> R(Throw("ReferenceError", fn), <<>>)

RECURSIVE EvalExpression(_, _, _)
RECURSIVE EvalArguments(_, _, _, _, _)

EvalArguments(nodes, i, iContext, iEvalContext, acc) ==
  IF i > Len(nodes) THEN acc
  ELSE LET a == Invoke("EvalExpression", <<nodes[i], iContext, iEvalContext>>)
       IN IF IsThrow(a.r) THEN [args |-> acc.args, r |-> a.r, log |-> acc.log \o a.log]
          ELSE Invoke("EvalArguments", <<nodes, i + 1, iContext, iEvalContext,
                             [args |-> Append(acc.args, a.r), r |-> Undef,
                              log |-> acc.log \o a.log]>>)

\* the value of an expression of the host language, called with (c, e)
EvalExpression(x, iContext, iEvalContext) ==
  CASE x.k = "lit" -> R(x.v, <<>>)
    [] x.k = "id" -> R(Throw("ReferenceError", x.name), <<>>)
    [] x.k = "update" -> R(Throw("ReferenceError", x.e.name), <<>>)
    [] x.k = "call" ->
         LET a == Invoke("EvalArguments", <<x.args, 1, iContext, iEvalContext,
                                [args |-> <<>>, r |-> Undef, log |-> <<>>]>>)
         IN IF IsThrow(a.r) THEN R(a.r, a.log)
            ELSE LET c == Invoke("CallNamed", <<x.fn, a.args, iContext, iEvalContext>>)
                 IN R(c.r, a.log \o c.log)
    [] x.k = "un" ->
         LET e == Invoke("EvalExpression", <<x.e, iContext, iEvalContext>>)
         IN IF IsThrow(e.r) THEN e
            ELSE R(Invoke("EvalUnaryOperator", <<x.op, e.r>>), e.log)
    [] x.k = "bin" ->
         LET l == Invoke("EvalExpression", <<x.l, iContext, iEvalContext>>)
         IN IF IsThrow(l.r) THEN l
            ELSE IF x.op = <<"&", "&">> /\ ~Truthy(l.r) THEN l
            ELSE IF x.op = <<"|", "|">> /\ Truthy(l.r) THEN l
            ELSE LET r == Invoke("EvalExpression", <<x.r, iContext, iEvalContext>>)
                 IN IF IsThrow(r.r) \/ x.op \in {<<"&", "&">>, <<"|", "|">>}
                    THEN R(r.r, l.log \o r.log)
                    ELSE R(Invoke("NativeInfix", <<x.op, l.r, r.r>>), l.log \o r.log)
    [] x.k = "cond" ->
         LET c == Invoke("EvalExpression", <<x.c, iContext, iEvalContext>>)
         IN IF IsThrow(c.r) THEN c
            ELSE LET b == Invoke("EvalExpression", <<IF Truthy(c.r) THEN x.a ELSE x.b,
                                         iContext, iEvalContext>>)
                 IN R(b.r, c.log \o b.log)
    [] OTHER -> R(Undef, <<>>)

\* DG.FormulaContext.createContextFunction(output): the function of (c, e)
\* that returns the expression the text denotes; text that is no expression
\* is a SyntaxError
createContextFunction(output) ==
  IF Invoke("ParseBody", <<Invoke("ToStringChars", <<output>>)>>).ok
  THEN [t |-> "function", code |-> Invoke("ToStringChars", <<output>>)]
  ELSE Throw("SyntaxError", <<>>)

\* a call compiled(context, evalContext) of a function createContextFunction made
CallCompiled(compiled, iContext, iEvalContext) ==
  Invoke("EvalExpression", <<Invoke("ParseBody", <<compiled.code>>).ast, iContext, iEvalContext>>)

\* ------------------------------------------------------------------------
\* The postfix evaluator
\* ------------------------------------------------------------------------

RECURSIVE convertToPostfix(_)
RECURSIVE PostfixArgs(_, _)

PostfixArgs(nodes, i) ==
  IF i > Len(nodes) THEN <<>>
  ELSE Invoke("convertToPostfix", <<nodes[i]>>) \o PostfixArgs(nodes, i + 1)

\* a convertToPostfix whose visitLeaf pushes the node twice
convertToPostfix_LeafTwice(iNode) ==
  CASE iNode.type \in {"BooleanLiteral", "NumericLiteral", "StringLiteral", "Variable"} ->
         <<iNode, iNode>>
    [] iNode.type = "FunctionCall" -> Append(PostfixArgs(iNode.args, 1), iNode)
    [] iNode.type = "UnaryExpression" ->
         Append(Invoke("convertToPostfix", <<iNode.expression>>), iNode)
    [] iNode.type = "BinaryExpression" ->
         Append(Invoke("convertToPostfix", <<iNode.left>>)
                \o Invoke("convertToPostfix", <<iNode.right>>), iNode)
    [] iNode.type = "ConditionalExpression" ->
         Append(Invoke("convertToPostfix", <<iNode.condition>>)
                \o Invoke("convertToPostfix", <<iNode.trueExpression>>)
                \o Invoke("convertToPostfix", <<iNode.falseExpression>>), iNode)
    [] OTHER -> <<>>

\* DG.Formula.convertToPostfix: the nodes in the order visit() pushes them
convertToPostfix(iNode) ==
  CASE iNode.type \in {"BooleanLiteral", "NumericLiteral", "StringLiteral", "Variable"} ->
         <<iNode>>
    [] iNode.type = "FunctionCall" -> Append(PostfixArgs(iNode.args, 1), iNode)
    [] iNode.type = "UnaryExpression" -> Append(Invoke("convertToPostfix", <<iNode.expression>>), iNode)
    [] iNode.type = "BinaryExpression" ->
         Append(Invoke("convertToPostfix", <<iNode.left>>) \o Invoke("convertToPostfix", <<iNode.right>>), iNode)
    [] iNode.type = "ConditionalExpression" ->
         Append(Invoke("convertToPostfix", <<iNode.condition>>)
                \o Invoke("convertToPostfix", <<iNode.trueExpression>>)
                \o Invoke("convertToPostfix", <<iNode.falseExpression>>), iNode)
    [] OTHER -> <<>>

\* evaluatePostfix's visitBinaryExpression, applied to the two stack values
PostfixBinaryOperator(operator, left, right) ==
  CASE operator = <<"^">> ->
         Invoke("NumPow", <<Invoke("ToNumber", <<Invoke("ToPrimitive", <<left, "number">>)>>),
                Invoke("ToNumber", <<Invoke("ToPrimitive", <<right, "number">>)>>)>>)
    [] operator \in {<<"*">>, <<"/">>, <<"%">>, <<"+">>, <<"-">>,
                     <<"<">>, <<">">>, <<"<", "=">>, <<">", "=">>} ->
         Invoke("NativeInfix", <<operator, left, right>>)
    [] operator \in {<<"=", "=">>, <<"=", "=", "=">>} -> Bool(StrictEq(left, right))
    [] operator \in {<<"!", "=">>, <<"!", "=", "=">>} -> Bool(~StrictEq(left, right))
    [] operator = <<"&", "&">> -> IF Truthy(left) THEN right ELSE left
    [] operator = <<"|", "|">> -> IF Truthy(left) THEN left ELSE right
    [] OTHER -> Undef

\* one step of evaluatePostfix: visit(iNode) on the stack (its first slen
\* entries); st is [stack, r, log], r a throw once a context call threw
PostfixVisit(iNode, iContext, st) ==
  LET stack == st.stack
      slen == Len(stack)
      top(k) == stack[slen - k]
      drop(k) == SubSeq(stack, 1, slen - k)
  IN CASE iNode.type \in {"BooleanLiteral", "NumericLiteral", "StringLiteral"} ->
            [st EXCEPT !.stack = Append(stack, iNode.value)]
       [] iNode.type = "Variable" ->
            LET v == EvaluateVariable(iContext, iNode.name, Undef)
                log == Append(st.log, Call("evaluateVariable", iNode.name, <<>>))
            IN IF IsThrow(v) THEN [stack |-> stack, r |-> v, log |-> log]
               ELSE [stack |-> Append(stack, v), r |-> st.r, log |-> log]
       [] iNode.type = "FunctionCall" ->
            LET nArgs == Len(iNode.args)
                stackArgs == SubSeq(stack, slen - nArgs + 1, slen)
                result == EvaluateFunction(iContext, iNode.name.name, stackArgs)
                log == Append(st.log, Call("evaluateFunction", iNode.name.name, stackArgs))
            IN IF IsThrow(result) THEN [stack |-> stack, r |-> result, log |-> log]
               ELSE [stack |-> Append(drop(nArgs), result), r |-> st.r, log |-> log]
       [] iNode.type = "UnaryExpression" ->
            IF slen = 0 THEN st
            ELSE [st EXCEPT !.stack =
                    Append(drop(1), Invoke("EvalUnaryOperator", <<iNode.operator, top(0)>>))]
       [] iNode.type = "BinaryExpression" ->
            IF slen < 2 THEN st
            ELSE [st EXCEPT !.stack =
                    Append(drop(2), Invoke("PostfixBinaryOperator", <<iNode.operator, top(1), top(0)>>))]
       [] iNode.type = "ConditionalExpression" ->
            IF slen < 3 THEN st
            ELSE [st EXCEPT !.stack =
                    Append(drop(3), IF Truthy(top(2)) THEN top(1) ELSE top(0))]
       [] OTHER -> st

RECURSIVE PostfixRun(_, _, _, _)
\* iPostfix.forEach(visit), from the i-th node on
PostfixRun(iPostfix, i, iContext, st) ==
  IF i > Len(iPostfix) \/ IsThrow(st.r) THEN st
  ELSE Invoke("PostfixRun", <<iPostfix, i + 1, iContext, Invoke("PostfixVisit", <<iPostfix[i], iContext, st>>)>>)

\* DG.Formula.evaluatePostfix(iPostfix, iContext)
evaluatePostfix(iPostfix, iContext) ==
  LET st == Invoke("PostfixRun", <<iPostfix, 1, iContext, [stack |-> <<>>, r |-> Undef, log |-> <<>>]>>)
  IN IF IsThrow(st.r) THEN R(st.r, st.log)
     ELSE R(IF Len(st.stack) > 0 THEN st.stack[Len(st.stack)] ELSE Undef, st.log)

\* ------------------------------------------------------------------------
\* The formula facade (DG.Formula) and its contexts
\* ------------------------------------------------------------------------

\* the contexts a collaborator can attach, besides the one DG.Formula creates
NumCtx == 1
\* the slots of an evaluation-time context
NumSlots == 1
\* the times the body of `parsed` may run
MaxParseCount == 3

NoContext == 0
CtxIds == 1..NumCtx
\* the context `compiled` and evaluateDirect create when none is attached
DefaultCtx == NumCtx + 1
Names == {"x"}
Unbound == [n \in Names |-> 0]
Bindings == [Names -> 0..NumSlots]

\* the source texts of the model and what the PEG.js parser makes of them
SourceX == <<"x">>
SourceOne == <<"1">>
SourceEnd == <<"x", "+">>
SourceMiddle == <<"x", ")">>
Sources == {NullV, Str(<<>>), Str(SourceX), Str(SourceOne), Str(SourceEnd), Str(SourceMiddle)}

\* DG.formulaParser.parse(source): a tree, or a SyntaxError with the token
\* found (null at the end of the input)
ParserOutcome(text) ==
  CASE text = SourceX -> [ok |-> TRUE, tree |-> Variable("x"), found |-> NullV]
    [] text = SourceOne -> [ok |-> TRUE, tree |-> NumericLiteral(1), found |-> NullV]
    [] text = SourceEnd -> [ok |-> FALSE, tree |-> NullV, found |-> NullV]
    [] OTHER -> [ok |-> FALSE, tree |-> NullV, found |-> Str(<<text[Len(text)]>>)]

\* The object and its collaborators while a handler runs: the fields, the two
\* caches, and what the handler has done so far (calls made to collaborators,
\* and what the formula's own observers got when they read `compiled`).
Cached(value) == [valid |-> TRUE, value |-> value]
NotCached == [valid |-> FALSE, value |-> Undef]
World ==
  [source |-> source, context |-> context, parsed |-> parsedCache,
   compiled |-> compiledCache, hasAggregates |-> hasAggregatesCache,
   parseCount |-> parseCount, names |-> ctxNames,
   observers |-> ctxObservers, stable |-> stable, calls |-> <<>>, seen |-> <<>>,
   isDestroyed |-> isDestroyed]
\* a handler's outcome: the world after it and what it returned or threw
Outcome(w, ret) == [w |-> w, ret |-> ret]
Did(w, call) == [w EXCEPT !.calls = Append(w.calls, call)]
ContextOf(w, c) == [id |-> c, names |-> w.names[c]]

\* the cacheable properties that depend on a key, directly or through
\* another property: .property('source'), .property('parsed','context','namespaceChange'),
\* .property('compiled', 'context')
Dependents(key) ==
  CASE key = "source" -> {"parsed", "compiled", "hasAggregates"}
    [] key = "parsed" -> {"compiled", "hasAggregates"}
    [] key = "context" -> {"compiled", "hasAggregates"}
    [] key = "namespaceChange" -> {"compiled", "hasAggregates"}
    [] key = "compiled" -> {"hasAggregates"}
    [] OTHER -> {}

\* a `parsed` whose catch block does not throw again: the read yields undefined
parsed_SwallowsError(w) ==
  LET counted == [w EXCEPT !.parseCount = w.parseCount + 1]
  IN IF ~Truthy(w.source) THEN Outcome(counted, w.source)
     ELSE LET called == Did(counted, Call("parse", "", <<w.source>>))
              out == ParserOutcome(w.source.v)
          IN Outcome(called, IF out.ok THEN out.tree ELSE Undef)

\* the body of the computed property `parsed`
parsed(w) ==
  LET counted == [w EXCEPT !.parseCount = w.parseCount + 1]
  IN IF ~Truthy(w.source) THEN Outcome(counted, w.source)
     ELSE LET called == Did(counted, Call("parse", "", <<w.source>>))
              out == ParserOutcome(w.source.v)
          IN IF out.ok THEN Outcome(called, out.tree)
             ELSE Outcome(called,
                    Throw("SyntaxError",
                          IF Truthy(out.found)
                          THEN <<"DG.Formula.SyntaxErrorMiddle">> \o out.found.v
                          ELSE <<"DG.Formula.SyntaxErrorEnd">>))

\* a `parsed` that is not cacheable: every read runs the body
GetParsed_Uncached(w) ==
  LET o == Invoke("parsed", <<w>>)
  IN IF IsThrow(o.ret) THEN o
     ELSE Outcome([o.w EXCEPT !.parsed = Cached(o.ret), !.stable.parsed = Cached(o.ret)],
                  o.ret)

\* get('parsed'): the cached value, or the body's result, cached unless it threw
GetParsed(w) ==
  IF w.parsed.valid
  THEN Outcome([w EXCEPT !.stable.parsed = Cached(w.parsed.value)], w.parsed.value)
  ELSE LET o == Invoke("parsed", <<w>>)
       IN IF IsThrow(o.ret) THEN o
          ELSE Outcome([o.w EXCEPT !.parsed = Cached(o.ret), !.stable.parsed = Cached(o.ret)],
                       o.ret)

\* DG.FormulaContext.create({}) when no context is attached
WithContext(w) ==
  IF w.context # NoContext THEN w
  ELSE [Did(w, Call("FormulaContext.create", "", <<>>))
          EXCEPT !.context = DefaultCtx, !.names[DefaultCtx] = Unbound]

\* the body of the computed property `compiled`
compiled(w) ==
  LET p == Invoke("GetParsed", <<w>>)
      c == WithContext(p.w)
  IN IF IsThrow(p.ret) THEN p
     ELSE IF ~Truthy(p.ret) THEN Outcome(c, NullV)
     ELSE LET will == Did(c, Call("willCompile", "", <<>>))
              output == Invoke("compileToJavaScript", <<p.ret, ContextOf(c, c.context),
                                            CompileState(<<>>, <<>>)>>)
              walked == [will EXCEPT !.calls =
                           Append(will.calls, Call("compileToJavaScript", "", <<p.ret>>))
                           \o output.cs.log]
              did == Did(Did(walked, Call("didCompile", "", <<>>)),
                         Call("completeCompile", "", <<>>))
          IN IF IsThrow(output.r) THEN Outcome(walked, output.r)
             ELSE Outcome(Did(did, Call("createContextFunction", "", <<output.r>>)),
                          Invoke("createContextFunction", <<output.r>>))

\* get('compiled')
GetCompiled(w) ==
  IF w.compiled.valid
  THEN Outcome([w EXCEPT !.stable.compiled = Cached(w.compiled.value)], w.compiled.value)
  ELSE LET o == Invoke("compiled", <<w>>)
       IN IF IsThrow(o.ret) THEN o
          ELSE Outcome([o.w EXCEPT !.compiled = Cached(o.ret), !.stable.compiled = Cached(o.ret)],
                       o.ret)

\* an observer of the formula that answers a notification by reading
\* `compiled`, and keeps what it got (or what the read threw) to itself
ObserverReads(w, key) ==
  LET o == Invoke("GetCompiled", <<w>>)
  IN Outcome([o.w EXCEPT !.seen = Append(o.w.seen, [key |-> key, ret |-> o.ret])], Undef)

\* notifyPropertyChange(key): the caches that depend on the key are dropped,
\* then the observers of the key are told; reads = the keys on which an
\* observer reads `compiled` in answer
notifyPropertyChange(w, key, reads) ==
  LET dropped == [w EXCEPT
                    !.parsed = IF "parsed" \in Dependents(key) THEN NotCached ELSE @,
                    !.compiled = IF "compiled" \in Dependents(key) THEN NotCached ELSE @,
                    !.hasAggregates =
                      IF "hasAggregates" \in Dependents(key) THEN NotCached ELSE @]
      told == Did(dropped, Call("notify", key, <<>>))
  IN IF key \in reads THEN Invoke("ObserverReads", <<told, key>>) ELSE Outcome(told, Undef)

\* the caller changed what the caches rest on
Unsettled(w) == [w EXCEPT !.stable = [parsed |-> NotCached, compiled |-> NotCached]]

\* an invalidate that leaves the source-derived cache alone
invalidate_ContextOnly(w, reads) ==
  Invoke("notifyPropertyChange", <<Unsettled(w), "context", reads>>)

\* DG.Formula.invalidate
invalidate(w, reads) == Invoke("notifyPropertyChange", <<Unsettled(w), "source", reads>>)

\* an invalidateContext that forces a full reparse
invalidateContext_Reparse(w, reads) ==
  Invoke("notifyPropertyChange", <<Unsettled(w), "source", reads>>)

\* DG.Formula.invalidateContext
invalidateContext(w, reads) == Invoke("notifyPropertyChange", <<Unsettled(w), "context", reads>>)

\* a namespaceDidChange that only tells that a dependent changed
namespaceDidChange_OnlyDependent(w, iKey, reads) ==
  Invoke("notifyPropertyChange", <<w, "dependentChange", reads>>)

\* DG.Formula.namespaceDidChange(iNotifier, iKey)
namespaceDidChange(w, iKey, reads) ==
  Invoke("notifyPropertyChange",
         <<Invoke("notifyPropertyChange",
                  <<Invoke("invalidateContext", <<w, reads>>).w, iKey, reads>>).w,
           "dependentChange", reads>>)

\* a dependentDidChange that also invalidates the context
dependentDidChange_Invalidates(w, iKey, reads) ==
  Invoke("notifyPropertyChange", <<Invoke("invalidateContext", <<w, reads>>).w, iKey, reads>>)

\* DG.Formula.dependentDidChange(iNotifier, iKey)
dependentDidChange(w, iKey, reads) == Invoke("notifyPropertyChange", <<w, iKey, reads>>)

\* what context.get('hasAggregates') may answer: the flag, or a failure
AggregateAnswers == {Bool(TRUE), Bool(FALSE), Throw("Error", <<>>)}

\* a `hasAggregates` with no try/catch around the forced compilation
hasAggregates_Rethrows(w, answer) ==
  LET c == Invoke("GetCompiled", <<w>>)
  IN IF IsThrow(c.ret) THEN c
     ELSE Outcome(Did(c.w, Call("context.get", "hasAggregates", <<answer>>)), answer)

\* the body of the computed property `hasAggregates`; answer is what the
\* context answers when asked for its flag
hasAggregates(w, answer) ==
  LET c == Invoke("GetCompiled", <<w>>)
  IN IF IsThrow(c.ret) THEN Outcome(c.w, Bool(FALSE))
     ELSE IF c.w.context = NoContext THEN Outcome(c.w, Bool(FALSE))
     ELSE LET asked == Did(c.w, Call("context.get", "hasAggregates", <<answer>>))
          IN Outcome(asked, IF IsThrow(answer) THEN Bool(FALSE) ELSE answer)

\* get('hasAggregates')
GetHasAggregates(w, answer) ==
  IF w.hasAggregates.valid THEN Outcome(w, w.hasAggregates.value)
  ELSE LET o == Invoke("hasAggregates", <<w, answer>>)
       IN IF IsThrow(o.ret) THEN o
          ELSE Outcome([o.w EXCEPT !.hasAggregates = Cached(o.ret)], o.ret)

\* an evaluate that calls `compiled` without looking at it: calling null throws
evaluate_Unguarded(w, iEvalContext) ==
  LET c == Invoke("GetCompiled", <<w>>)
  IN IF IsThrow(c.ret) THEN c
     ELSE IF ~Truthy(c.ret) THEN Outcome(c.w, Throw("TypeError", <<>>))
     ELSE Outcome(c.w, Invoke("CallCompiled", <<c.ret, ContextOf(c.w, c.w.context), iEvalContext>>).r)

\* DG.Formula.evaluate(iEvalContext)
evaluate(w, iEvalContext) ==
  LET c == Invoke("GetCompiled", <<w>>)
  IN IF IsThrow(c.ret) \/ ~Truthy(c.ret) THEN c
     ELSE Outcome(c.w, Invoke("CallCompiled", <<c.ret, ContextOf(c.w, c.w.context), iEvalContext>>).r)

\* DG.Formula.evaluateDirect(iEvalContext)
evaluateDirect(w, iEvalContext) ==
  LET p == Invoke("GetParsed", <<w>>)
      c == WithContext(p.w)
  IN IF IsThrow(p.ret) THEN p
     ELSE Outcome(c, Invoke("evaluateParseTree", <<p.ret, ContextOf(c, c.context), iEvalContext>>).r)

\* set(key, value) of SC.Object with a value other than the one stored: the
\* value is stored and the change is notified. A context that was created
\* for the formula is unreachable once another is attached.
set(w, key, value, reads) ==
  IF key = "source"
  THEN Invoke("notifyPropertyChange", <<Unsettled([w EXCEPT !.source = value]), key, reads>>)
  ELSE Invoke("notifyPropertyChange",
              <<Unsettled([w EXCEPT !.context = value, !.names[DefaultCtx] = Unbound]),
                key, reads>>)

\* The operators of the model call one another by name, as JavaScript looks a
\* function up when it is called: Invoke(f, a) is the call of f on the arguments a.
Invoke(f, a) ==
  CASE f = "NumRem" -> NumRem(a[1], a[2])
    [] f = "NumPow" -> NumPow(a[1], a[2])
    [] f = "CharsToNum" -> CharsToNum(a[1])
    [] f = "ToNumber" -> ToNumber(a[1])
    [] f = "ToStringChars" -> ToStringChars(a[1])
    [] f = "ToStr" -> ToStr(a[1])
    [] f = "StarterNum" -> StarterNum(a[1])
    [] f = "arithmeticStarter" -> arithmeticStarter(a[1], a[2])
    [] f = "arithmeticFinisher" -> arithmeticFinisher(a[1], a[2])
    [] f = "stringFinisher" -> stringFinisher(a[1], a[2], a[3], a[4])
    [] f = "add" -> add(a[1], a[2])
    [] f = "subtract" -> subtract(a[1], a[2])
    [] f = "lessThan" -> lessThan(a[1], a[2])
    [] f = "lessThanOrEqual" -> lessThanOrEqual(a[1], a[2])
    [] f = "BinaryNum" -> BinaryNum(a[1])
    [] f = "binaryOperator" -> binaryOperator(a[1], a[2], a[3])
    [] f = "UnaryPlus" -> UnaryPlus(a[1])
    [] f = "UnaryMinus" -> UnaryMinus(a[1])
    [] f = "EvalUnaryOperator" -> EvalUnaryOperator(a[1], a[2])
    [] f = "EvalBinaryOperator" -> EvalBinaryOperator(a[1], a[2], a[3])
    [] f = "EvalArgs" -> EvalArgs(a[1], a[2], a[3], a[4], a[5])
    [] f = "EvalConditionalExpression" -> EvalConditionalExpression(a[1], a[2], a[3])
    [] f = "evaluateParseTree" -> evaluateParseTree(a[1], a[2], a[3])
    [] f = "CompileFunction" -> CompileFunction(a[1], a[2], a[3], a[4])
    [] f = "CompileArgs" -> CompileArgs(a[1], a[2], a[3], a[4])
    [] f = "visitTerm" -> visitTerm(a[1], a[2], a[3])
    [] f = "compileToJavaScript" -> compileToJavaScript(a[1], a[2], a[3])
    [] f = "NextToken" -> NextToken(a[1], a[2])
    [] f = "Lex" -> Lex(a[1], a[2])
    [] f = "ParseAssign" -> ParseAssign(a[1], a[2])
    [] f = "ParseInfix" -> ParseInfix(a[1], a[2], a[3])
    [] f = "InfixLoop" -> InfixLoop(a[1], a[2], a[3])
    [] f = "ParseUnary" -> ParseUnary(a[1], a[2])
    [] f = "ParsePrimary" -> ParsePrimary(a[1], a[2])
    [] f = "ParseArguments" -> ParseArguments(a[1], a[2], a[3])
    [] f = "ParseBody" -> ParseBody(a[1])
    [] f = "ToPrimitive" -> ToPrimitive(a[1], a[2])
    [] f = "NativeAdd" -> NativeAdd(a[1], a[2])
    [] f = "NativeLt" -> NativeLt(a[1], a[2])
    [] f = "NativeLe" -> NativeLe(a[1], a[2])
    [] f = "LooseEq" -> LooseEq(a[1], a[2])
    [] f = "ToInt" -> ToInt(a[1])
    [] f = "NativeInfix" -> NativeInfix(a[1], a[2], a[3])
    [] f = "CallNamed" -> CallNamed(a[1], a[2], a[3], a[4])
    [] f = "EvalArguments" -> EvalArguments(a[1], a[2], a[3], a[4], a[5])
    [] f = "EvalExpression" -> EvalExpression(a[1], a[2], a[3])
    [] f = "createContextFunction" -> createContextFunction(a[1])
    [] f = "CallCompiled" -> CallCompiled(a[1], a[2], a[3])
    [] f = "convertToPostfix" -> convertToPostfix(a[1])
    [] f = "PostfixBinaryOperator" -> PostfixBinaryOperator(a[1], a[2], a[3])
    [] f = "PostfixVisit" -> PostfixVisit(a[1], a[2], a[3])
    [] f = "PostfixRun" -> PostfixRun(a[1], a[2], a[3], a[4])
    [] f = "evaluatePostfix" -> evaluatePostfix(a[1], a[2])
    [] f = "parsed" -> parsed(a[1])
    [] f = "GetParsed" -> GetParsed(a[1])
    [] f = "compiled" -> compiled(a[1])
    [] f = "GetCompiled" -> GetCompiled(a[1])
    [] f = "ObserverReads" -> ObserverReads(a[1], a[2])
    [] f = "notifyPropertyChange" -> notifyPropertyChange(a[1], a[2], a[3])
    [] f = "invalidate" -> invalidate(a[1], a[2])
    [] f = "invalidateContext" -> invalidateContext(a[1], a[2])
    [] f = "namespaceDidChange" -> namespaceDidChange(a[1], a[2], a[3])
    [] f = "dependentDidChange" -> dependentDidChange(a[1], a[2], a[3])
    [] f = "hasAggregates" -> hasAggregates(a[1], a[2])
    [] f = "GetHasAggregates" -> GetHasAggregates(a[1], a[2])
    [] f = "evaluate" -> evaluate(a[1], a[2])
    [] f = "evaluateDirect" -> evaluateDirect(a[1], a[2])
    [] f = "set" -> set(a[1], a[2], a[3], a[4])

\* the keys on which an observer of the formula may read `compiled`
ReadKeys == {"namespaceChange", "dependentChange"}
\* the evaluation-time context the facade is evaluated with
FacadeEvalContext == EvalContext([i \in 1..NumSlots |-> Num(i)])
\* the contexts that exist: the attachable ones, and the created one while attached
LiveContexts == CtxIds \cup (IF context = DefaultCtx THEN {DefaultCtx} ELSE {})

Operation(op, o) == [op |-> op, ret |-> o.ret, calls |-> o.w.calls, seen |-> o.w.seen]

\* the handler's outcome becomes the next state
Commit(op, o) ==
  /\ ~isDestroyed
  /\ o.w.parseCount <= MaxParseCount
  /\ source' = o.w.source
  /\ context' = o.w.context
  /\ parsedCache' = o.w.parsed
  /\ compiledCache' = o.w.compiled
  /\ hasAggregatesCache' = o.w.hasAggregates
  /\ parseCount' = o.w.parseCount
  /\ ctxNames' = o.w.names
  /\ ctxObservers' = o.w.observers
  /\ stable' = o.w.stable
  /\ last' = Operation(op, o)
  /\ isDestroyed' = o.w.isDestroyed
  /\ UNCHANGED <<evalVars, runtimeVars, clientVars>>

SetSource ==
  \E s \in Sources \ {source} :
    Commit("set source", Invoke("set", <<World, "source", s, {}>>))
SetContext ==
  \E c \in ({NoContext} \cup CtxIds) \ {context} :
    Commit("set context", Invoke("set", <<World, "context", c, {}>>))
Invalidate ==
  LET o == Invoke("invalidate", <<World, {}>>) IN Commit("invalidate", o)
InvalidateContext ==
  LET o == Invoke("invalidateContext", <<World, {}>>) IN Commit("invalidateContext", o)
ReadParsed ==
  LET o == Invoke("GetParsed", <<World>>) IN Commit("get parsed", o)
ReadCompiled ==
  LET o == Invoke("GetCompiled", <<World>>) IN Commit("get compiled", o)
Evaluate ==
  LET o == Invoke("evaluate", <<World, FacadeEvalContext>>) IN Commit("evaluate", o)
EvaluateDirect ==
  LET o == Invoke("evaluateDirect", <<World, FacadeEvalContext>>)
  IN Commit("evaluateDirect", o)
ReadHasAggregates ==
  \E answer \in AggregateAnswers :
    Commit("get hasAggregates", Invoke("GetHasAggregates", <<World, answer>>))

\* DG.Formula.destroy: the observers are removed from the context the formula
\* has now, that context is destroyed and the field is set to null (a plain
\* assignment: nothing is notified, no cache is dropped); then the object
\* itself is destroyed
destroy(w) ==
  LET context_ == w.context
      removed ==
        [w EXCEPT !.observers = @ \ {context_},
                  !.context = NoContext,
                  !.calls = @ \o <<Call("context.removeObserver", "namespaceChange", <<context_>>),
                                    Call("context.removeObserver", "dependentChange", <<context_>>),
                                    Call("context.destroy", "", <<context_>>)>>]
  IN Outcome([(IF context_ # NoContext THEN removed ELSE w) EXCEPT !.isDestroyed = TRUE],
             Undef)
Destroy == Commit("destroy", destroy(World))

\* a context's namespace changes and the context notifies 'namespaceChange':
\* the formula's namespaceDidChange runs when it observes that context
NamespaceChange ==
  \E c \in LiveContexts, n \in Names, slot \in 0..NumSlots, reads \in SUBSET ReadKeys :
    /\ slot # ctxNames[c][n]
    /\ LET w == [World EXCEPT !.names[c][n] = slot]
       IN IF c \in ctxObservers
          THEN Commit("namespaceDidChange", Invoke("namespaceDidChange", <<w, "namespaceChange", reads>>))
          ELSE reads = {} /\ Commit("namespaceChange unobserved", Outcome(w, Undef))

\* a context notifies 'dependentChange'
DependentChange ==
  \E c \in LiveContexts, reads \in SUBSET ReadKeys :
    IF c \in ctxObservers
    THEN Commit("dependentDidChange", Invoke("dependentDidChange", <<World, "dependentChange", reads>>))
    ELSE reads = {} /\ Commit("dependentChange unobserved", Outcome(World, Undef))

\* DG.Formula.create({source, context}): init registers the observers
InitFacade ==
  /\ source \in Sources
  /\ context \in {NoContext, 1}
  /\ parsedCache = NotCached
  /\ compiledCache = NotCached
  /\ hasAggregatesCache = NotCached
  /\ parseCount = 0
  /\ ctxNames = [c \in 1..DefaultCtx |-> IF c = DefaultCtx THEN Unbound ELSE [n \in Names |-> 1]]
  /\ ctxObservers = (IF context = NoContext THEN {} ELSE {context})
  /\ stable = [parsed |-> NotCached, compiled |-> NotCached]
  /\ last = [op |-> "create", ret |-> Undef, calls |-> <<>>, seen |-> <<>>]
  /\ isDestroyed = FALSE

NoEvaluation ==
  /\ tree = NullV
  /\ env = Undef
  /\ direct = Undef
  /\ generated = Undef
  /\ postfix = Undef

\* no runtime function applied on its own
NoRuntime ==
  /\ operand1 = Undef
  /\ operand2 = Undef
  /\ applied = Undef

\* no client of the formula at work
NoDocument ==
  /\ iDocument = Undef
  /\ validation = Undef

NoCases ==
  /\ iResources = Undef
  /\ iValues = Undef
  /\ reply = Undef

NoEdit ==
  /\ editContext = Undef
  /\ undoHistory = Undef
  /\ lastStep = Undef

NoClient == NoDocument /\ NoCases /\ NoEdit

Init == InitFacade /\ NoEvaluation /\ NoRuntime /\ NoClient

Next ==
  \/ SetSource
  \/ SetContext
  \/ Invalidate
  \/ InvalidateContext
  \/ ReadParsed
  \/ ReadCompiled
  \/ ReadHasAggregates
  \/ Evaluate
  \/ EvaluateDirect
  \/ Destroy
  \/ NamespaceChange
  \/ DependentChange

Spec == Init /\ [][Next]_vars

\* ------------------------------------------------------------------------
\* Properties of the facade
\* ------------------------------------------------------------------------

Ran(calls, fn) == \E i \in DOMAIN calls : calls[i].call = fn
RanOn(calls, fn, arg) ==
  \E i \in DOMAIN calls : calls[i].call = fn /\ calls[i].args = <<arg>>
CountOf(calls, fn) == Cardinality({i \in DOMAIN calls : calls[i].call = fn})
Notified(calls) ==
  LET told == SelectSeq(calls, LAMBDA c : c.call = "notify")
  IN [i \in DOMAIN told |-> told[i].name]
ContextInvalidated(op) == op \in {"invalidateContext", "namespaceDidChange"}
SourceInvalidated(op) == op \in {"invalidate", "set source"}
HasTree == parsedCache.valid /\ Truthy(parsedCache.value)
\* what compiling the tree of w against the context of w yields
CompiledIn(w) == Invoke("compiled", <<[w EXCEPT !.compiled = NotCached]>>).ret
\* the object and its collaborators after the step
WorldAfter ==
  [source |-> source', context |-> context', parsed |-> parsedCache',
   compiled |-> compiledCache', hasAggregates |-> hasAggregatesCache',
   parseCount |-> parseCount', names |-> ctxNames',
   observers |-> ctxObservers', stable |-> stable', calls |-> <<>>, seen |-> <<>>,
   isDestroyed |-> isDestroyed']

\* C1: in every reachable state, a read of `compiled` yields what compiling the
\* current `parsed` tree against the current context, in the namespace state
\* the context is in, yields: the cache is never stale.
C1_CompiledNeverStale == Invoke("GetCompiled", <<World>>).ret = CompiledIn(World)

\* C2: a namespace notification from the observed context, or invalidateContext(),
\* drops the cached `compiled` and keeps the cached `parsed`; the next read of
\* `compiled` (by an observer answering the notification, or by a caller
\* afterwards) runs the code generator on the cached tree, and the parser is
\* not called.
C2_ContextInvalidationRecompiles ==
  [][ /\ (ContextInvalidated(last'.op) /\ last'.seen = <<>>)
           => (~compiledCache'.valid /\ parsedCache' = parsedCache)
      /\ (last'.op = "namespaceDidChange" /\ last'.seen # <<>> /\ HasTree)
           => /\ RanOn(last'.calls, "compileToJavaScript", parsedCache.value)
              /\ ~Ran(last'.calls, "parse")
              /\ parseCount' = parseCount
              /\ parsedCache' = parsedCache
      /\ (ContextInvalidated(last.op) /\ last.seen = <<>> /\ last'.op = "get compiled"
            /\ HasTree)
           => /\ RanOn(last'.calls, "compileToJavaScript", parsedCache.value)
              /\ ~Ran(last'.calls, "parse")
              /\ parseCount' = parseCount
              /\ parsedCache' = parsedCache ]_vars

\* an observer read `compiled` in answer to a namespace notification: the code
\* generator ran on the cached tree and the parser did not
C2_Witness ==
  /\ last.op = "namespaceDidChange"
  /\ last.seen # <<>>
  /\ HasTree
  /\ RanOn(last.calls, "compileToJavaScript", parsedCache.value)
  /\ ~Ran(last.calls, "parse")

\* C3, as stated: after invalidate() or a change of `source` the next read of
\* `parsed` calls the parser on the current source, and the next read of
\* `compiled` generates code again.
C3_NextReadReparses ==
  [][ /\ SourceInvalidated(last'.op) => (~parsedCache'.valid /\ ~compiledCache'.valid)
      /\ (SourceInvalidated(last.op) /\ last'.op = "get parsed")
           => RanOn(last'.calls, "parse", source)
      /\ (SourceInvalidated(last.op) /\ last'.op = "get compiled")
           => (RanOn(last'.calls, "parse", source)
               /\ Ran(last'.calls, "compileToJavaScript")) ]_vars

\* C3, amended: after invalidate() or a change of `source` both caches are
\* dropped. The next read of `parsed` calls the parser on the current source
\* when that source is not empty, and returns the empty source itself, without
\* a parser call, when it is. The next read of `compiled` does the same and
\* generates code from the tree the parser returned, when it returned one; it
\* yields null for an empty source and throws what the parser threw.
C3_NextReadReparsesSource ==
  [][ /\ SourceInvalidated(last'.op) => (~parsedCache'.valid /\ ~compiledCache'.valid)
      /\ (SourceInvalidated(last.op) /\ last'.op = "get parsed")
           => IF Truthy(source)
              THEN last'.calls = <<Call("parse", "", <<source>>)>>
              ELSE last'.calls = <<>> /\ last'.ret = source
      /\ (SourceInvalidated(last.op) /\ last'.op = "get compiled")
           => IF ~Truthy(source)
              THEN /\ ~Ran(last'.calls, "parse")
                   /\ ~Ran(last'.calls, "compileToJavaScript")
                   /\ last'.ret = NullV
              ELSE /\ RanOn(last'.calls, "parse", source)
                   /\ IF ParserOutcome(source.v).ok
                      THEN RanOn(last'.calls, "compileToJavaScript",
                                 ParserOutcome(source.v).tree)
                      ELSE /\ ~Ran(last'.calls, "compileToJavaScript")
                           /\ IsThrow(last'.ret) ]_vars

\* a source that was parsed before has just been invalidated: nothing is cached
C3_Witness ==
  /\ SourceInvalidated(last.op)
  /\ parseCount > 0
  /\ Truthy(source)
  /\ ~parsedCache.valid
  /\ ~compiledCache.valid

\* C4: when a read of `parsed` (of `compiled`) has returned a value and nothing
\* changed the source or the context, invalidated, or notified a namespace
\* change since, the next read returns that value and calls neither the parser
\* nor the code generator nor a compile hook.
C4_RepeatedReadsUseCache ==
  [][ /\ (last'.op = "get parsed" /\ stable.parsed.valid)
           => /\ last'.ret = stable.parsed.value
              /\ last'.calls = <<>>
              /\ parseCount' = parseCount
      /\ (last'.op = "get compiled" /\ stable.compiled.valid)
           => /\ last'.ret = stable.compiled.value
              /\ last'.calls = <<>>
              /\ parseCount' = parseCount ]_vars

\* a read of `compiled` returned a function without a single call
C4_Witness ==
  /\ last.op = "get compiled"
  /\ last.calls = <<>>
  /\ ~IsThrow(last.ret)
  /\ Truthy(last.ret)
  /\ stable.compiled = Cached(last.ret)

\* C5: a dependent-changed notification is forwarded under its own key and
\* nothing else is notified; cached values stay cached: an observer that reads
\* `compiled` in answer, and the next reader, get the cached artifact and
\* nothing is compiled.
C5_DependentChangeKeepsCaches ==
  [][ /\ last'.op = "dependentDidChange"
           => /\ Notified(last'.calls) = <<"dependentChange">>
              /\ parsedCache.valid => parsedCache' = parsedCache
              /\ compiledCache.valid
                   => /\ compiledCache' = compiledCache
                      /\ Len(last'.calls) = 1
                      /\ \A i \in DOMAIN last'.seen :
                           last'.seen[i].ret = compiledCache.value
              /\ last'.seen = <<>>
                   => (parsedCache' = parsedCache /\ compiledCache' = compiledCache)
      /\ (last.op = "dependentDidChange" /\ compiledCache.valid
            /\ last'.op = "get compiled")
           => (last'.ret = compiledCache.value /\ last'.calls = <<>>) ]_vars

\* observers were told of a dependent change, read `compiled`, and got the
\* cached function with no compilation
C5_Witness ==
  /\ last.op = "dependentDidChange"
  /\ last.seen # <<>>
  /\ Len(last.calls) = 1
  /\ compiledCache.valid
  /\ Truthy(compiledCache.value)
  /\ last.seen[1].ret = compiledCache.value

\* C6: on a namespace notification the formula invalidates its context, then
\* forwards the namespace change, then a dependent change; an observer that
\* reads `compiled` in answer to either gets what compiling against the
\* changed namespace yields, and the code generator has run for it.
C6_NamespaceChangeForwarded ==
  [][ last'.op = "namespaceDidChange"
        => /\ Notified(last'.calls) = <<"context", "namespaceChange", "dependentChange">>
           /\ \A i \in DOMAIN last'.seen : last'.seen[i].ret = CompiledIn(WorldAfter)
           /\ (last'.seen # <<>> /\ HasTree)
                => RanOn(last'.calls, "compileToJavaScript", parsedCache.value) ]_vars

\* both forwarded notifications were answered by a read, and the reads got a
\* function compiled during the notification
C6_Witness ==
  /\ last.op = "namespaceDidChange"
  /\ Len(last.seen) = 2
  /\ ~IsThrow(last.seen[1].ret)
  /\ Truthy(last.seen[1].ret)
  /\ last.seen[2].ret = last.seen[1].ret
  /\ Ran(last.calls, "compileToJavaScript")

\* C7: every compilation is bracketed: willCompile right before the tree walk,
\* didCompile and then completeCompile after it, each once, whether or not
\* the walk throws.
C7_CompileBracketed ==
  /\ CountOf(last.calls, "willCompile") = CountOf(last.calls, "compileToJavaScript")
  /\ CountOf(last.calls, "didCompile") = CountOf(last.calls, "compileToJavaScript")
  /\ CountOf(last.calls, "completeCompile") = CountOf(last.calls, "compileToJavaScript")
  /\ \A i \in DOMAIN last.calls :
       last.calls[i].call = "compileToJavaScript"
         => /\ i > 1
            /\ last.calls[i - 1].call = "willCompile"
            /\ \E j \in (i + 1)..(Len(last.calls) - 1) :
                 /\ last.calls[j].call = "didCompile"
                 /\ last.calls[j + 1].call = "completeCompile"
                 /\ \A k \in (i + 1)..(j - 1) :
                      last.calls[k].call \notin
                        {"willCompile", "compileToJavaScript", "didCompile",
                         "completeCompile"}

\* C12: a read of `hasAggregates` never throws and yields a boolean. When no
\* value is cached it first does what a read of `compiled` does; if that
\* throws (the parser's error, or the code generator's), the error is
\* swallowed and the result is false; otherwise `compiled` is cached, the
\* context is asked for its flag last, and the result is the flag.
C12_HasAggregatesNeverThrows ==
  [][ last'.op = "get hasAggregates"
        => /\ last'.ret \in {Bool(TRUE), Bool(FALSE)}
           /\ ~hasAggregatesCache.valid
                => LET c == Invoke("GetCompiled", <<World>>)
                       n == Len(c.w.calls)
                   IN IF IsThrow(c.ret)
                      THEN last'.ret = Bool(FALSE) /\ last'.calls = c.w.calls
                      ELSE /\ compiledCache' = Cached(c.ret)
                           /\ Len(last'.calls) = n + 1
                           /\ SubSeq(last'.calls, 1, n) = c.w.calls
                           /\ last'.calls[n + 1].call = "context.get"
                           /\ LET flag == last'.calls[n + 1].args[1]
                              IN last'.ret = (IF IsThrow(flag) THEN Bool(FALSE) ELSE flag) ]_vars

\* a read of `hasAggregates` ran the parser on a source that does not parse,
\* and answered false
C12_Witness ==
  /\ last.op = "get hasAggregates"
  /\ Ran(last.calls, "parse")
  /\ ~parsedCache.valid
  /\ last.ret = Bool(FALSE)
  /\ hasAggregatesCache = Cached(Bool(FALSE))

CompileCalls == {"parse", "compileToJavaScript", "willCompile", "didCompile", "completeCompile"}

\* C13: evaluate on a formula whose source is null or the empty string returns
\* a falsy value and does not throw; the parser, the code generator and the
\* compile hooks of the context are not called.
C13_EvaluateEmptySource ==
  (last.op = "evaluate" /\ ~Truthy(source))
    => /\ ~IsThrow(last.ret)
       /\ ~Truthy(last.ret)
       /\ \A i \in DOMAIN last.calls : last.calls[i].call \notin CompileCalls

\* evaluate ran on the empty string, on a formula whose `parsed` had been
\* computed before
C13_Witness ==
  /\ last.op = "evaluate"
  /\ source = Str(<<>>)
  /\ parseCount > 1
  /\ last.ret = NullV

\* the parser fails on the current source
ParseFails == Truthy(source) /\ ~ParserOutcome(source.v).ok
\* the message the error leaves with: the "middle" message with the token
\* found, the "end of input" message when none was found
LocalizedMessage ==
  LET found == ParserOutcome(source.v).found
  IN IF Truthy(found) THEN <<"DG.Formula.SyntaxErrorMiddle">> \o found.v
     ELSE <<"DG.Formula.SyntaxErrorEnd">>

\* C14: while the parser fails on the current source, every read of `parsed`
\* and of `compiled`, and every evaluate and evaluateDirect, throws the
\* parser's SyntaxError carrying the localized message; nothing is returned
\* and nothing is cached, so no tree of an earlier source is served.
C14_ParseErrorRethrown ==
  (last.op \in {"get parsed", "get compiled", "evaluate", "evaluateDirect"} /\ ParseFails)
    => /\ last.ret = Throw("SyntaxError", LocalizedMessage)
       /\ Ran(last.calls, "parse")
       /\ ~parsedCache.valid
       /\ ~compiledCache.valid

\* evaluateDirect threw the "middle" error on a formula that had parsed an
\* earlier source
C14_Witness ==
  /\ last.op = "evaluateDirect"
  /\ source = Str(SourceMiddle)
  /\ parseCount > 1
  /\ IsThrow(last.ret)
  /\ last.ret.arg = <<"DG.Formula.SyntaxErrorMiddle", ")">>

\* ------------------------------------------------------------------------
\* The three evaluation strategies on one tree
\* ------------------------------------------------------------------------

\* a strategy that has not run yet
Pending == [t |-> "pending"]

\* the context the strategies run against: every name bound to slot 1
EvalCtx == [id |-> 1, names |-> [n \in Names |-> 1]]
SlotValues == {Num(2), Str(<<"1">>)}
Envs == {EvalContext(slots) : slots \in [1..NumSlots -> SlotValues]}

BinaryOperators ==
  {<<"+">>, <<"-">>, <<"*">>, <<"/">>, <<"%">>, <<"^">>, <<"<">>, <<">">>,
   <<"<", "=">>, <<">", "=">>, <<"=", "=">>, <<"!", "=">>, <<"&", "&">>,
   <<"|", "|">>, <<"&">>}
UnaryOperators == {<<"+">>, <<"-">>, <<"!">>}
\* an operand whose evaluation throws: "a" - "b"
Thrower == BinaryExpression(<<"-">>, StringLiteral(<<"a">>), StringLiteral(<<"b">>))
Atoms ==
  {NumericLiteral(1), StringLiteral(<<"1">>), StringLiteral(<<>>),
   BooleanLiteral(FALSE), Variable("x")}
Operands == Atoms \cup {Thrower}
Branches ==
  {FunctionCall("f", <<Variable("x")>>), FunctionCall("mean", <<NumericLiteral(1)>>),
   Variable("x"), NumericLiteral(1)}
\* function calls, nested up to two levels, of f, of the aggregate function
\* mean and of g, which the context does not know
CalledNames == FnNames \cup {"g"}
InnerCalls == {FunctionCall(m, <<Variable("x")>>) : m \in CalledNames}
ArgumentLists ==
  {<<>>, <<Variable("x")>>, <<NumericLiteral(1), StringLiteral(<<"1">>)>>}
    \cup {<<c, Variable("x")>> : c \in InnerCalls}
    \cup {<<Variable("x"), c>> : c \in InnerCalls}
CallTrees == {FunctionCall(n, args) : n \in CalledNames, args \in ArgumentLists}
\* string literals: plain, and holding a double quote, a backslash or a
\* line break
StringValues ==
  {<<"a">>, <<"a", "\"", "b">>, <<"a", "\\", "b">>, <<"a", "\\">>,
   <<"\\", "\"">>, <<"a", "\n", "b">>}
StringTrees == {StringLiteral(v) : v \in StringValues}
\* a unary operator applied to a unary expression, as in -(-x)
NestedUnary ==
  {UnaryExpression(outer, UnaryExpression(inner, Variable("x"))) :
     outer \in UnaryOperators, inner \in UnaryOperators}
Trees ==
  {BinaryExpression(op, l, r) : op \in BinaryOperators, l \in Operands, r \in Operands}
  \cup {UnaryExpression(op, e) : op \in UnaryOperators, e \in Operands}
  \cup {ConditionalExpression(c, a, b) : c \in Atoms, a \in Branches, b \in Branches}
  \cup CallTrees
  \cup NestedUnary
  \cup StringTrees

\* DG.Formula.evaluateParseTree(tree, context, evalContext)
EvaluateTree ==
  /\ direct = Pending
  /\ direct' = Invoke("evaluateParseTree", <<tree, EvalCtx, env>>)
  /\ UNCHANGED <<facadeVars, runtimeVars, clientVars, tree, env, generated, postfix>>

\* what `compiled` and `evaluate` do with the tree: generate the text, make
\* the function of it, call the function; compile holds what the walk
\* returned or threw and the context's bookkeeping after it
Generated(iNode, iContext, iEvalContext) ==
  LET output == Invoke("compileToJavaScript", <<iNode, iContext, CompileState(<<>>, <<>>)>>)
  IN IF IsThrow(output.r)
     THEN [code |-> Undef, r |-> output.r, log |-> <<>>, compile |-> output]
     ELSE LET fn == Invoke("createContextFunction", <<output.r>>)
          IN IF IsThrow(fn)
             THEN [code |-> output.r, r |-> fn, log |-> <<>>, compile |-> output]
             ELSE LET called == Invoke("CallCompiled", <<fn, iContext, iEvalContext>>)
                  IN [code |-> output.r, r |-> called.r, log |-> called.log,
                      compile |-> output]

CompileAndCall ==
  /\ generated = Pending
  /\ generated' = Generated(tree, EvalCtx, env)
  /\ UNCHANGED <<facadeVars, runtimeVars, clientVars, tree, env, direct, postfix>>

\* DG.Formula.evaluatePostfix(convertToPostfix(tree), context, evalContext):
\* the function takes two parameters, the evaluation-time context is dropped
EvaluatePostfix ==
  /\ postfix = Pending
  /\ postfix' = Invoke("evaluatePostfix", <<Invoke("convertToPostfix", <<tree>>), EvalCtx>>)
  /\ UNCHANGED <<facadeVars, runtimeVars, clientVars, tree, env, direct, generated>>

InitEval ==
  /\ source = NullV
  /\ context = NoContext
  /\ InitFacade
  /\ tree \in Trees
  /\ env \in Envs
  /\ direct = Pending
  /\ generated = Pending
  /\ postfix = Pending
  /\ NoRuntime
  /\ NoClient

NextEval == EvaluateTree \/ CompileAndCall \/ EvaluatePostfix

SpecEval == InitEval /\ [][NextEval]_vars

\* ------------------------------------------------------------------------
\* Properties of the evaluation strategies
\* ------------------------------------------------------------------------

\* the same value, or a failure of the same class
SameOutcome(a, b) ==
  IF IsThrow(a) \/ IsThrow(b) THEN IsThrow(a) /\ IsThrow(b) /\ a.cls = b.cls
  ELSE a = b

\* C8: on every tree and evaluation-time context, evaluateParseTree and the
\* function made of compileToJavaScript's output give the same value or fail
\* with the same class of error.
C8_CompiledAgreesWithTreeWalk ==
  (direct # Pending /\ generated # Pending) => SameOutcome(direct.r, generated.r)

\* C9: on every tree, convertToPostfix followed by evaluatePostfix gives the
\* same value as evaluateParseTree, or fails with the same class of error.
C9_PostfixAgreesWithTreeWalk ==
  (direct # Pending /\ postfix # Pending) => SameOutcome(direct.r, postfix.r)

\* the context calls a node can make: <<call, name>>
RECURSIVE ContextCalls(_)
RECURSIVE ContextCallsOfAll(_, _)
ContextCallsOfAll(nodes, i) ==
  IF i > Len(nodes) THEN {}
  ELSE ContextCalls(nodes[i]) \cup ContextCallsOfAll(nodes, i + 1)
ContextCalls(iNode) ==
  CASE iNode.type = "Variable" -> {<<"evaluateVariable", iNode.name>>}
    [] iNode.type = "FunctionCall" ->
         {<<"evaluateFunction", iNode.name.name>>} \cup ContextCallsOfAll(iNode.args, 1)
    [] iNode.type = "UnaryExpression" -> ContextCalls(iNode.expression)
    [] iNode.type = "BinaryExpression" ->
         ContextCalls(iNode.left) \cup ContextCalls(iNode.right)
    [] iNode.type = "ConditionalExpression" ->
         ContextCalls(iNode.condition) \cup ContextCalls(iNode.trueExpression)
           \cup ContextCalls(iNode.falseExpression)
    [] OTHER -> {}
CallsMade(log) == {<<log[i].call, log[i].name>> : i \in DOMAIN log}
IsConditional == tree.type = "ConditionalExpression"
ConditionOutcome == Invoke("evaluateParseTree", <<tree.condition, EvalCtx, env>>)
TakenBranch ==
  IF Truthy(ConditionOutcome.r) THEN tree.trueExpression ELSE tree.falseExpression
OtherBranch ==
  IF Truthy(ConditionOutcome.r) THEN tree.falseExpression ELSE tree.trueExpression
\* the context calls that only the branch not taken can make
OnlyInOtherBranch ==
  ContextCalls(OtherBranch) \ (ContextCalls(tree.condition) \cup ContextCalls(TakenBranch))

\* C10: evaluateParseTree on a ConditionalExpression makes the condition's
\* context calls first, then those of the branch the condition's truthiness
\* selects, and returns that branch's value; no call that occurs only in the
\* other branch is made.
C10_OnlyTakenBranchEvaluated ==
  (direct # Pending /\ IsConditional /\ ~IsThrow(ConditionOutcome.r))
    => LET taken == Invoke("evaluateParseTree", <<TakenBranch, EvalCtx, env>>)
       IN /\ direct.log = ConditionOutcome.log \o taken.log
          /\ SameOutcome(direct.r, taken.r)
          /\ CallsMade(direct.log) \cap OnlyInOtherBranch = {}

\* a conditional was evaluated whose branches call different functions: the
\* taken branch's call was made
C10_Witness ==
  /\ direct # Pending
  /\ IsConditional
  /\ ~IsThrow(ConditionOutcome.r)
  /\ OnlyInOtherBranch # {}
  /\ CallsMade(direct.log) \cap ContextCalls(TakenBranch) # {}
  /\ Truthy(ConditionOutcome.r)

IsLogical ==
  tree.type = "BinaryExpression" /\ tree.operator \in {<<"&", "&">>, <<"|", "|">>}
LeftOutcome == Invoke("evaluateParseTree", <<tree.left, EvalCtx, env>>)
\* the left operand's value decides the result: falsy for &&, truthy for ||
LeftDecides ==
  /\ ~IsThrow(LeftOutcome.r)
  /\ (tree.operator = <<"&", "&">>) = ~Truthy(LeftOutcome.r)

\* C11: when evaluateParseTree evaluates `&&` or `||` and the left operand's
\* value decides the result, the right operand is not evaluated: the context
\* calls made are the left operand's alone, nothing the right operand would
\* throw is raised, and the result is the left operand's value.
C11_LogicalOperatorsShortCircuit ==
  (direct # Pending /\ IsLogical /\ LeftDecides)
    => (direct.log = LeftOutcome.log /\ direct.r = LeftOutcome.r)

\* ------------------------------------------------------------------------
\* The type-coercion runtime on a pair of raw operands
\* ------------------------------------------------------------------------

\* the raw operands: empty values, a blank string, numbers, NaN, a boolean, a
\* numeric string, plain strings, a Date, a date string, an error marker
RawOperands ==
  {Undef, NullV, Str(<<>>), Str(<<" ">>), Num(0), Num(5), NaN, Bool(TRUE),
   Str(<<"2">>), Str(<<"a">>), Str(<<"b">>), DateV(Num(100), 1),
   Str(<<"1", "/", "2">>), ErrV(1), ErrV(2)}
\* the operators evaluateParseTree hands to binaryOperator
DispatchedOperators == {<<"*">>, <<"/">>, <<"%">>, <<"^">>}
\* an operator symbol binaryOperator has no case for
UnrecognizedOperators == {<<"&">>}

Applied(fn, op, r) == [fn |-> fn, op |-> op, r |-> r]
Apply(fn, op, r) ==
  /\ applied = Pending
  /\ applied' = Applied(fn, op, r)
  /\ UNCHANGED <<facadeVars, evalVars, clientVars, operand1, operand2>>

\* DG.Formula.add(operand1, operand2)
Add == Apply("add", <<"+">>, Invoke("add", <<operand1, operand2>>))
\* DG.Formula.subtract(operand1, operand2)
Subtract == Apply("subtract", <<"-">>, Invoke("subtract", <<operand1, operand2>>))
\* DG.Formula.lessThan(operand1, operand2)
LessThan == Apply("lessThan", <<"<">>, Invoke("lessThan", <<operand1, operand2>>))
\* DG.Formula.lessThanOrEqual(operand1, operand2)
LessThanOrEqual ==
  Apply("lessThanOrEqual", <<"<", "=">>, Invoke("lessThanOrEqual", <<operand1, operand2>>))
\* DG.Formula.binaryOperator(op, operand1, operand2)
BinaryOperator ==
  \E op \in DispatchedOperators :
    Apply("binaryOperator", op, Invoke("binaryOperator", <<op, operand1, operand2>>))

\* DG.Formula.binaryOperator(op, operand1, operand2), called directly with an
\* operator symbol outside * / % ^
BinaryOperatorUnrecognized ==
  \E op \in UnrecognizedOperators :
    Apply("binaryOperator", op, Invoke("binaryOperator", <<op, operand1, operand2>>))

InitRuntime ==
  /\ source = NullV
  /\ context = NoContext
  /\ InitFacade
  /\ NoEvaluation
  /\ operand1 \in RawOperands
  /\ operand2 \in RawOperands
  /\ applied = Pending
  /\ NoClient

NextRuntime ==
  \/ Add \/ Subtract \/ LessThan \/ LessThanOrEqual \/ BinaryOperator
  \/ BinaryOperatorUnrecognized

SpecRuntime == InitRuntime /\ [][NextRuntime]_vars

\* ------------------------------------------------------------------------
\* Properties of the type-coercion runtime
\* ------------------------------------------------------------------------

Arithmetic == {"add", "subtract", "lessThan", "lessThanOrEqual"}
Done == applied # Pending
BothEmpty == SCEmpty(operand1) /\ SCEmpty(operand2)

\* C15: when both operands are empty (null, undefined or the empty string),
\* add, subtract, lessThan and lessThanOrEqual return the empty string; none
\* throws.
C15_BothEmptyGivesEmpty ==
  (Done /\ applied.fn \in Arithmetic /\ BothEmpty) => applied.r = Str(<<>>)

\* subtract of null and undefined went through the finisher and gave ""
C15_Witness ==
  /\ Done
  /\ applied.fn = "subtract"
  /\ operand1 = NullV
  /\ operand2 = Undef
  /\ applied.r = Str(<<>>)

\* a number other than NaN, a boolean, or a string that reads as a number
PlainNumeric(v) ==
  \/ v.t = "number" /\ ~IsNaNNum(v)
  \/ v.t = "boolean"
  \/ v.t = "string" /\ ~SCEmpty(v) /\ ~IsSpaceStr(v) /\ ~IsNaNNum(ToNumber(v))
\* one operand is empty and the other satisfies P
OneEmptyOther(P(_)) ==
  \/ SCEmpty(operand1) /\ ~SCEmpty(operand2) /\ P(operand2)
  \/ SCEmpty(operand2) /\ ~SCEmpty(operand1) /\ P(operand1)
PlainNumericOrDate(v) == PlainNumeric(v) \/ IsDate(v)

\* C16, as stated: when exactly one operand is empty and the other is a
\* number, a boolean, a numeric string or a Date, the result is the empty
\* string for add, subtract, lessThan, lessThanOrEqual and for binaryOperator
\* with * / % ^.
C16_EmptyDominatesNumeric ==
  (Done /\ OneEmptyOther(PlainNumericOrDate)) => applied.r = Str(<<>>)

\* C16, amended: when exactly one operand is empty and the other is a number
\* other than NaN, a boolean, a numeric string or a Date, add, subtract,
\* lessThan and lessThanOrEqual return the empty string; binaryOperator with
\* * / % ^ returns the empty string when the other operand is a number, a
\* boolean or a numeric string, and throws DG.TypeError naming the operator
\* when it is a Date.
C16_EmptyDominatesNumericNotDate ==
  /\ (Done /\ applied.fn \in Arithmetic /\ OneEmptyOther(PlainNumericOrDate))
       => applied.r = Str(<<>>)
  /\ (Done /\ applied.fn = "binaryOperator" /\ OneEmptyOther(PlainNumeric))
       => applied.r = Str(<<>>)
  /\ (Done /\ applied.fn = "binaryOperator" /\ OneEmptyOther(IsDate))
       => applied.r = Throw("DG.TypeError", applied.op)

\* binaryOperator('%') of a numeric string and null gave ""
C16_Witness ==
  /\ Done
  /\ applied = Applied("binaryOperator", <<"%">>, Str(<<>>))
  /\ operand1 = Str(<<"2">>)
  /\ operand2 = NullV

\* numeric-interpretable to arithmeticStarter
Numeric(v) == ~IsNaNNum(StarterNum(v))
Ends(v) == v.t = "error" \/ IsNaNValue(v)

\* C17: add of two non-empty operands that are not both numeric-interpretable
\* (and of which none is an error marker or NaN) returns the concatenation of
\* the operands' string forms.
C17_AddConcatenates ==
  (Done /\ applied.fn = "add"
     /\ ~SCEmpty(operand1) /\ ~SCEmpty(operand2)
     /\ ~(Numeric(operand1) /\ Numeric(operand2))
     /\ ~Ends(operand1) /\ ~Ends(operand2))
    => applied.r = Str(ToStringChars(operand1) \o ToStringChars(operand2))

\* a number that is no NaN
PlainNumber(v) == v.t = "number" /\ ~IsNaNNum(v)
\* a Date made of the number n
IsDateOf(v, n) == IsDate(v) /\ v.v = n

\* C18, as stated: subtract(date, n) for a number n returns a date built from
\* the numeric difference, and subtract(n, date) fails with a TypeError.
C18_DateMustBeLeft ==
  /\ (Done /\ applied.fn = "subtract" /\ IsDate(operand1) /\ PlainNumber(operand2))
       => IsDateOf(applied.r, NumSub(operand1.v, operand2))
  /\ (Done /\ applied.fn = "subtract" /\ PlainNumber(operand1) /\ IsDate(operand2))
       => (IsThrow(applied.r) /\ applied.r.cls \in {"DG.TypeError", "TypeError"})

\* C18, amended: subtract(date, n) for a number n returns a date built from
\* the numeric difference; subtract(n, date) does not fail: it returns the
\* plain numeric difference of n and the date's numeric value, a number.
C18_DateLeftGivesDate ==
  /\ (Done /\ applied.fn = "subtract" /\ IsDate(operand1) /\ PlainNumber(operand2))
       => IsDateOf(applied.r, NumSub(operand1.v, operand2))
  /\ (Done /\ applied.fn = "subtract" /\ PlainNumber(operand1) /\ IsDate(operand2))
       => applied.r = NumSub(operand1, operand2.v)

\* subtract of a date and 5 gave the date five units earlier
C18_Witness ==
  /\ Done
  /\ applied.fn = "subtract"
  /\ IsDate(operand1)
  /\ operand2 = Num(5)
  /\ IsDateOf(applied.r, NumSub(operand1.v, Num(5)))

\* a Date, or a date-formatted string
DateInterpretable(v) == IsDate(v) \/ IsDateString(v)

\* C19: binaryOperator with * / % ^ throws DG.TypeError naming the operator
\* whenever an operand is a Date or a date-formatted string, whatever the
\* other operand is: a number, an empty value, NaN or an error marker.
C19_DatesRejectedFirst ==
  (Done /\ applied.fn = "binaryOperator"
     /\ (DateInterpretable(operand1) \/ DateInterpretable(operand2)))
    => applied.r = Throw("DG.TypeError", applied.op)

\* binaryOperator('*') of an error marker and a date string threw the
\* TypeError: the error marker was not propagated
C19_Witness ==
  /\ Done
  /\ applied.fn = "binaryOperator"
  /\ applied.op = <<"*">>
  /\ operand1 = ErrV(1)
  /\ IsDateString(operand2)
  /\ applied.r = Throw("DG.TypeError", <<"*">>)

\* C20: when an operand is NaN and none is an error marker, add, subtract,
\* lessThan and lessThanOrEqual return NaN, also when the other operand is
\* empty; none returns false or the empty string, none throws.
C20_NaNPropagates ==
  (Done /\ applied.fn \in Arithmetic
     /\ (IsNaNValue(operand1) \/ IsNaNValue(operand2))
     /\ operand1.t # "error" /\ operand2.t # "error")
    => applied.r = NaN

\* lessThan of the empty string and NaN gave NaN
C20_Witness ==
  /\ Done
  /\ applied.fn = "lessThan"
  /\ operand1 = Str(<<>>)
  /\ operand2 = NaN
  /\ applied.r = NaN

\* an error marker: an Error object
IsErrorMarker(v) == v.t = "error"
\* the error marker that propagates: the first operand's when both are
FirstErrorMarker == IF IsErrorMarker(operand1) THEN operand1 ELSE operand2

\* C21: when an operand is an error marker, add, subtract, lessThan and
\* lessThanOrEqual return that error marker (the first operand's when both
\* are) whatever the other operand is, and none throws; binaryOperator does
\* the same when no operand is a Date or a date-formatted string.
C21_ErrorMarkersPropagate ==
  (Done /\ (IsErrorMarker(operand1) \/ IsErrorMarker(operand2))
     /\ (applied.fn \in Arithmetic
           \/ ~(DateInterpretable(operand1) \/ DateInterpretable(operand2))))
    => applied.r = FirstErrorMarker

\* subtract of two different error markers gave the first operand's
C21_Witness ==
  /\ Done
  /\ applied.fn = "subtract"
  /\ operand1 = ErrV(2)
  /\ operand2 = ErrV(1)
  /\ applied.r = ErrV(2)

\* C22: binaryOperator with an operator symbol outside * / % ^ throws a
\* SyntaxError that names the operator, for every pair of operands.
C22_UnrecognizedOperatorFails ==
  (Done /\ applied.fn = "binaryOperator" /\ applied.op \in UnrecognizedOperators)
    => applied.r = Throw("SyntaxError", applied.op)

\* ------------------------------------------------------------------------
\* DG.DocumentHelper.isValidJsonDocument
\* ------------------------------------------------------------------------

\* JSON values: null, booleans, numbers and strings as above; an object is the
\* sequence of its own properties in enumeration order, an array the sequence
\* of its items
Obj(props) == [t |-> "object", props |-> props]
Arr(items) == [t |-> "array", items |-> items]
Prop(key, value) == [key |-> key, value |-> value]
\* a JSON text: the string, known by the value it denotes
JsonText(v) == [t |-> "string", json |-> TRUE, denotes |-> v]
\* a string that is no JSON text
MalformedText == [t |-> "string", json |-> FALSE, denotes |-> Undef]
\* JSON.parse
JSONParse(text) == IF text.json THEN text.denotes ELSE Throw("SyntaxError", <<>>)

\* Number(value) of a JSON value
RECURSIVE DocNumber(_)
DocNumber(v) ==
  CASE v.t = "object" -> NaN
    [] v.t = "array" ->
         (IF v.items = <<>> THEN Num(0)
          ELSE IF Len(v.items) > 1 THEN NaN
          ELSE IF v.items[1].t \in {"null", "undefined"} THEN Num(0)
          ELSE IF v.items[1].t = "boolean" THEN NaN
          ELSE DocNumber(v.items[1]))
    [] OTHER -> ToNumber(v)

\* symbols.indexOf(ref) >= 0
IndexOf(symbols, ref) == \E i \in 1..Len(symbols) : StrictEq(symbols[i], ref)

\* own property test and DG.ObjectMap.keys
HasOwnProperty(doc, prop) ==
  doc.t = "object" /\ \E i \in 1..Len(doc.props) : doc.props[i].key = prop
ObjectMapKeys(doc) ==
  IF doc.t = "object" THEN [i \in 1..Len(doc.props) |-> doc.props[i].key] ELSE <<>>

\* visit(key, value, fn) with the inner function of validateInternalRefs: the
\* references after every id below a _links_ property has been stored
RECURSIVE VisitLinks(_, _, _), VisitLinksEach(_, _, _, _)
VisitLinks(key, value, references) ==
  LET stored == IF key = "id" THEN Append(references, DocNumber(value)) ELSE references
  IN VisitLinksEach(key, value, 1, stored)
VisitLinksEach(key, value, i, references) ==
  CASE value.t = "array" /\ i <= Len(value.items) ->
         VisitLinksEach(key, value, i + 1, VisitLinks(key, value.items[i], references))
    [] value.t = "object" /\ i <= Len(value.props) ->
         VisitLinksEach(key, value, i + 1,
                        VisitLinks(value.props[i].key, value.props[i].value, references))
    [] OTHER -> references

\* visit(key, value, fn) with the outer function of validateInternalRefs; tab
\* holds the symbols and the references stored so far
RECURSIVE VisitPart(_, _, _), VisitPartEach(_, _, _, _)
VisitPart(key, value, tab) ==
  CASE key = "guid" ->
         VisitPartEach(key, value, 1,
                       [tab EXCEPT !.symbols = Append(@, DocNumber(value))])
    [] key = "_links_" ->
         [tab EXCEPT !.references = VisitLinks(key, value, @)]
    [] key = "parent" ->
         VisitPartEach(key, value, 1,
                       [tab EXCEPT !.references = Append(@, DocNumber(value))])
    [] key = "contextStorage" -> tab
    [] OTHER -> VisitPartEach(key, value, 1, tab)
VisitPartEach(key, value, i, tab) ==
  CASE value.t = "array" /\ i <= Len(value.items) ->
         VisitPartEach(key, value, i + 1, VisitPart(key, value.items[i], tab))
    [] value.t = "object" /\ i <= Len(value.props) ->
         VisitPartEach(key, value, i + 1,
                       VisitPart(value.props[i].key, value.props[i].value, tab))
    [] OTHER -> tab

Message(key, arg) == [msg |-> key, arg |-> arg]

\* validateInternalRefs: one message for every reference that is no symbol
RECURSIVE UnresolvedMessages(_, _, _)
UnresolvedMessages(tab, i, errors) ==
  IF i > Len(tab.references) THEN errors
  ELSE UnresolvedMessages(tab, i + 1,
         IF IndexOf(tab.symbols, tab.references[i]) THEN errors
         ELSE Append(errors, Message("unresolvedID", tab.references[i])))
validateInternalRefs(doc, errors) ==
  UnresolvedMessages(VisitPart("doc", doc, [symbols |-> <<>>, references |-> <<>>]),
                     1, errors)

expectedProperties ==
  {"appBuildNum", "appName", "appVersion", "changeCount", "components", "contexts",
   "globalValues", "guid", "metadata", "name", "_permissions",
   "_openedFromSharedDocument"}
requiredProperties == <<"name">>

\* the messages for the required properties doc does not have
RECURSIVE MissingMessages(_, _, _)
MissingMessages(doc, i, errors) ==
  IF i > Len(requiredProperties) THEN errors
  ELSE MissingMessages(doc, i + 1,
         IF HasOwnProperty(doc, requiredProperties[i]) THEN errors
         ELSE Append(errors, Message("missingRequiredProperty", requiredProperties[i])))
\* the unexpected properties of doc, which are logged
UnexpectedLogged(doc) ==
  SelectSeq(ObjectMapKeys(doc), LAMBDA prop : prop \notin expectedProperties)

\* isValidJsonDocument: the error messages returned and the properties logged
isValidJsonDocument(iDoc) ==
  LET parse == IF iDoc.t = "string" THEN JSONParse(iDoc) ELSE iDoc
      doc == IF IsThrow(parse) THEN Undef ELSE parse
      errors0 == IF IsThrow(parse) THEN <<Message("parseError", parse.cls)>> ELSE <<>>
  IN IF Truthy(doc)
     THEN [errors |-> validateInternalRefs(doc, MissingMessages(doc, 1, errors0)),
           logged |-> UnexpectedLogged(doc)]
     ELSE [errors |-> errors0, logged |-> <<>>]

\* the values a guid, a parent or a link id takes in the documents of the model
NoProp == [t |-> "absent"]
Opt(key, value) == IF value = NoProp THEN <<>> ELSE <<Prop(key, value)>>
\* a document: named or not, with or without a top-level property that is not
\* expected, a component with guid g, a link to l and a contextStorage holding
\* a parent s, and a context with guid 2 whose parent is p
MakeDocument(named, extra, g, l, s, p) ==
  Obj(Opt("name", IF named THEN Str(<<"d">>) ELSE NoProp)
      \o Opt("extra", IF extra THEN Num(1) ELSE NoProp)
      \o <<Prop("guid", Num(1)),
           Prop("components",
                Arr(<<Obj(<<Prop("guid", g)>>
                          \o Opt("_links_",
                                 IF l = NoProp THEN NoProp
                                 ELSE Obj(<<Prop("context", Obj(<<Prop("id", l)>>))>>))
                          \o Opt("contextStorage",
                                 IF s = NoProp THEN NoProp
                                 ELSE Obj(<<Prop("parent", s)>>)))>>)),
           Prop("contexts",
                Arr(<<Obj(<<Prop("guid", Num(2))>> \o Opt("parent", p))>>))>>)
Documents ==
  {MakeDocument(named, extra, g, l, s, p) :
     named \in BOOLEAN, extra \in BOOLEAN,
     g \in {Num(3), Str(<<"4">>)},
     l \in {NoProp, Num(1), Num(3), Num(9)},
     s \in {NoProp, Num(9)},
     p \in {NoProp, Num(1), Num(4), Num(9)}}
\* what a caller hands over: a string that is no JSON, the JSON text of a
\* document, of null or of a number, or a document already parsed
DocumentInputs ==
  {MalformedText, JsonText(NullV), JsonText(Num(5))}
    \cup {JsonText(d) : d \in Documents} \cup Documents

\* DG.DocumentHelper.isValidJsonDocument(iDocument)
IsValidJsonDocument ==
  /\ validation = Pending
  /\ validation' = isValidJsonDocument(iDocument)
  /\ UNCHANGED <<facadeVars, evalVars, runtimeVars, iDocument, caseVars, editVars>>

InitDocument ==
  /\ source = NullV
  /\ context = NoContext
  /\ InitFacade
  /\ NoEvaluation
  /\ NoRuntime
  /\ iDocument \in DocumentInputs
  /\ validation = Pending
  /\ NoCases
  /\ NoEdit

NextDocument == IsValidJsonDocument

SpecDocument == InitDocument /\ [][NextDocument]_vars

\* the document a caller's input denotes, when it denotes one
ParsesAsJson == iDocument.t # "string" \/ iDocument.json
DocumentOf == IF iDocument.t = "string" THEN iDocument.denotes ELSE iDocument
Validated == validation # Pending

\* the guids found anywhere in a JSON value
RECURSIVE GuidsIn(_, _)
GuidsIn(key, v) ==
  (IF key = "guid" THEN {DocNumber(v)} ELSE {})
    \cup (CASE v.t = "array" -> UNION {GuidsIn(key, v.items[i]) : i \in 1..Len(v.items)}
            [] v.t = "object" ->
                 UNION {GuidsIn(v.props[i].key, v.props[i].value) : i \in 1..Len(v.props)}
            [] OTHER -> {})
\* the number of references in a JSON value (ids under _links_ when linked,
\* parent values otherwise; none inside contextStorage) that are no guid
RECURSIVE Sum(_, _), Unresolved(_, _, _, _)
Sum(f, n) == IF n = 0 THEN 0 ELSE f[n] + Sum(f, n - 1)
Unresolved(key, v, linked, guids) ==
  IF key = "contextStorage" /\ ~linked THEN 0
  ELSE LET below == linked \/ key = "_links_"
           isRef == IF linked THEN key = "id" ELSE key = "parent"
           here == IF isRef /\ DocNumber(v) \notin guids THEN 1 ELSE 0
       IN here
          + (CASE v.t = "array" ->
                    Sum([i \in 1..Len(v.items) |-> Unresolved(key, v.items[i], below, guids)],
                        Len(v.items))
               [] v.t = "object" ->
                    Sum([i \in 1..Len(v.props) |->
                           Unresolved(v.props[i].key, v.props[i].value, below, guids)],
                        Len(v.props))
               [] OTHER -> 0)
\* the violations of a document: a text that does not parse; or the mandatory
\* properties missing, the unexpected top-level properties, and the
\* unresolved references
Violations ==
  IF ~ParsesAsJson THEN 1
  ELSE Cardinality({i \in 1..Len(requiredProperties) :
                      ~HasOwnProperty(DocumentOf, requiredProperties[i])})
       + Len(UnexpectedLogged(DocumentOf))
       + Unresolved("doc", DocumentOf, FALSE, GuidsIn("doc", DocumentOf))

\* C23: isValidJsonDocument returns one message per violation: none exactly
\* when the document parses as JSON, has every mandatory top-level property
\* and no unexpected one, and every reference (each id under _links_ and each
\* parent value, outside contextStorage) is a guid of the document.
C23_ErrorsAreTheViolations ==
  Validated => Len(validation.errors) = Violations

\* ------------------------------------------------------------------------
\* Properties of the code generator
\* ------------------------------------------------------------------------

Compiled == generated # Pending
WalkReturned == Compiled /\ ~IsThrow(generated.compile.r)
Event(ev, name, open) == [ev |-> ev, name |-> name, open |-> open]

\* what the tree asks for, in tree order: a function context opened before
\* and closed after the arguments of every FunctionCall node, and every
\* Variable compiled; each with the names of the enclosing FunctionCall nodes
RECURSIVE Bracketing(_, _), BracketingAll(_, _, _)
Bracketing(iNode, enclosing) ==
  CASE iNode.type = "Variable" -> <<Event("compileVariable", iNode.name, enclosing)>>
    [] iNode.type = "FunctionCall" ->
         <<Event("beginFunctionContext", iNode.name.name, enclosing)>>
           \o BracketingAll(iNode.args, 1, Append(enclosing, iNode.name.name))
           \o <<Event("endFunctionContext", iNode.name.name, enclosing)>>
    [] iNode.type = "UnaryExpression" -> Bracketing(iNode.expression, enclosing)
    [] iNode.type = "BinaryExpression" ->
         Bracketing(iNode.left, enclosing) \o Bracketing(iNode.right, enclosing)
    [] iNode.type = "ConditionalExpression" ->
         Bracketing(iNode.condition, enclosing)
           \o Bracketing(iNode.trueExpression, enclosing)
           \o Bracketing(iNode.falseExpression, enclosing)
    [] OTHER -> <<>>
BracketingAll(nodes, i, enclosing) ==
  IF i > Len(nodes) THEN <<>>
  ELSE Bracketing(nodes[i], enclosing) \o BracketingAll(nodes, i + 1, enclosing)

\* what the context was asked, read off the calls made to it: the function
\* contexts open at each call are those begun and not yet ended; a context is
\* ended by the call that names it while it is the last one begun
RECURSIVE Replay(_, _, _, _)
Replay(log, i, open, acc) ==
  IF i > Len(log) THEN [events |-> acc, open |-> open]
  ELSE LET c == log[i]
       IN CASE c.call = "beginFunctionContext" ->
                 Replay(log, i + 1, Append(open, c.name),
                        Append(acc, Event(c.call, c.name, open)))
            [] c.call = "endFunctionContext" ->
                 IF open # <<>> /\ open[Len(open)] = c.name
                 THEN Replay(log, i + 1, SubSeq(open, 1, Len(open) - 1),
                             Append(acc, Event(c.call, c.name, SubSeq(open, 1, Len(open) - 1))))
                 ELSE Replay(log, i + 1, open, Append(acc, Event("unmatched", c.name, open)))
            [] c.call = "compileVariable" ->
                 Replay(log, i + 1, open, Append(acc, Event(c.call, c.name, open)))
            [] OTHER -> Replay(log, i + 1, open, acc)
Asked == Replay(generated.compile.cs.log, 1, <<>>, <<>>)
IsPrefix(a, b) == Len(a) <= Len(b) /\ a = SubSeq(b, 1, Len(a))

\* C24: when the walk of compileToJavaScript returns, the context has been
\* asked to begin and to end one function context for every FunctionCall node,
\* properly nested in tree order, none is left open, and every Variable was
\* compiled while the contexts of exactly its enclosing FunctionCall nodes were
\* open; when the walk throws, what the context was asked up to the throw is
\* the beginning of that sequence.
C24_FunctionContextsBracketArguments ==
  /\ WalkReturned =>
       /\ Asked.events = Bracketing(tree, <<>>)
       /\ Asked.open = <<>>
       /\ generated.compile.cs.open = <<>>
  /\ (Compiled /\ ~WalkReturned) => IsPrefix(Asked.events, Bracketing(tree, <<>>))

\* f(mean(x), x) was compiled: x first inside f and mean, then inside f alone
C24_Witness ==
  /\ WalkReturned
  /\ tree = FunctionCall("f", <<FunctionCall("mean", <<Variable("x")>>), Variable("x")>>)
  /\ Asked.events =
       <<Event("beginFunctionContext", "f", <<>>),
         Event("beginFunctionContext", "mean", <<"f">>),
         Event("compileVariable", "x", <<"f", "mean">>),
         Event("endFunctionContext", "mean", <<"f">>),
         Event("compileVariable", "x", <<"f">>),
         Event("endFunctionContext", "f", <<>>)>>

\* the text compileToJavaScript makes of a node on its own
TextOf(iNode) ==
  ToStringChars(compileToJavaScript(iNode, EvalCtx, CompileState(<<>>, <<>>)).r)

\* C25: the text generated for a UnaryExpression keeps the tree's grouping
\* whatever the operand is: a BinaryExpression operand is put in parentheses,
\* and when the operand is itself a UnaryExpression the function made of the
\* text applies the two operators one after the other, as the tree walk does.
C25_GroupingPreserved ==
  /\ (WalkReturned /\ tree.type = "UnaryExpression"
        /\ tree.expression.type = "BinaryExpression")
       => generated.code = Str(tree.operator \o <<"(">> \o TextOf(tree.expression) \o <<")">>)
  /\ (Compiled /\ direct # Pending /\ tree.type = "UnaryExpression"
        /\ tree.expression.type = "UnaryExpression")
       => SameOutcome(direct.r, generated.r)

\* ------------------------------------------------------------------------
\* Properties of the postfix form
\* ------------------------------------------------------------------------

\* the children of a node, in order
Children(iNode) ==
  CASE iNode.type = "FunctionCall" -> iNode.args
    [] iNode.type = "UnaryExpression" -> <<iNode.expression>>
    [] iNode.type = "BinaryExpression" -> <<iNode.left, iNode.right>>
    [] iNode.type = "ConditionalExpression" ->
         <<iNode.condition, iNode.trueExpression, iNode.falseExpression>>
    [] OTHER -> <<>>
\* the number of nodes of a tree
RECURSIVE NodeCount(_), NodeCountAll(_, _)
NodeCount(iNode) == 1 + NodeCountAll(Children(iNode), 1)
NodeCountAll(nodes, i) ==
  IF i > Len(nodes) THEN 0 ELSE NodeCount(nodes[i]) + NodeCountAll(nodes, i + 1)

\* a sequence of nodes read as a post-order: every node takes the trees made
\* by the nodes before it as its children, which they must be; gives the trees
\* left at the end, or Undef when a node does not find its children
RECURSIVE Rebuild(_, _, _)
Rebuild(seq, i, trees) ==
  IF i > Len(seq) THEN trees
  ELSE LET n == Len(Children(seq[i]))
       IN IF n <= Len(trees)
             /\ SubSeq(trees, Len(trees) - n + 1, Len(trees)) = Children(seq[i])
          THEN Rebuild(seq, i + 1, Append(SubSeq(trees, 1, Len(trees) - n), seq[i]))
          ELSE Undef

PostfixOfTree == convertToPostfix(tree)
\* evaluatePostfix after its first k nodes
PostfixAfter(k) ==
  PostfixRun(SubSeq(PostfixOfTree, 1, k), 1, EvalCtx,
             [stack |-> <<>>, r |-> Undef, log |-> <<>>])
PostfixDone == postfix # Pending

C27_StringLiteralRoundTrip ==
  (Compiled /\ direct # Pending /\ tree.type = "StringLiteral")
    => (direct.r = tree.value /\ generated.r = tree.value)

\* ------------------------------------------------------------------------
\* Properties of the formula's teardown
\* ------------------------------------------------------------------------

\* C28: once the formula is destroyed, no context still holds the observers
\* the formula registered, also when the context was replaced after creation;
\* the context the formula had was destroyed and its context field is null.
C28_DestroyUnregisters ==
  isDestroyed =>
    /\ ctxObservers = {}
    /\ context = NoContext
    /\ \A c \in CtxIds \cup {DefaultCtx} :
         RanOn(last.calls, "context.removeObserver", c)
           => RanOn(last.calls, "context.destroy", c)

\* ------------------------------------------------------------------------
\* DG.DocumentHelper.createCases: the cases of a create/case request are
\* regrouped into one change request per parent, each request is applied to
\* the data context, and the ids of the created cases are collected
\* ------------------------------------------------------------------------

MaxCases == 3

\* a && b
LogicalAnd(a, b) == IF Truthy(a) THEN b ELSE a

\* a case of the request: the parent it names and its values
Case(parent, values) == [t |-> "object", parent |-> parent, values |-> values]

\* a change request for the data context
Request(collection, parent, requester) ==
  [operation |-> "createCases",
   collection |-> collection,
   properties |-> [parent |-> parent],
   values |-> <<>>,
   requester |-> requester]

\* cases.forEach(createOrAppendRequest): a case joins the request of its
\* parent, which is created when there is none yet
RECURSIVE createOrAppendRequest(_, _, _, _)
createOrAppendRequest(cases, requests, collection, requester) ==
  IF cases = <<>> THEN requests
  ELSE
    LET iCase == Head(cases)
        parent == iCase.parent
        values == iCase.values
        found == {i \in DOMAIN requests : requests[i].properties.parent = parent}
        req == IF found = {} THEN Len(requests) + 1
               ELSE CHOOSE i \in found : \A j \in found : i <= j
        pushed == IF found = {}
                  THEN Append(requests, Request(collection, parent, requester))
                  ELSE requests
    IN createOrAppendRequest(Tail(cases),
                             [pushed EXCEPT ![req].values = Append(@, values)],
                             collection, requester)

\* the id a data context gives the case, and the item, created from `values`
CaseID(values) == 100 + values
ItemID(values) == [t |-> "id", n |-> 200 + values]

\* what the data context answers to a change request
ChangeResult(success, caseIDs, itemIDs) ==
  [t |-> "object", success |-> Bool(success), caseIDs |-> caseIDs, itemIDs |-> itemIDs]

\* context.applyChange(req): the data context decides by the parent whether
\* it answers at all, refuses the request, or creates the cases, with an item
\* id for each case or with none
applyChange(context_, req) ==
  LET answer == context_.answers[req.properties.parent]
      created == [i \in DOMAIN req.values |-> CaseID(req.values[i])]
      items == [i \in DOMAIN req.values |-> ItemID(req.values[i])]
  IN CASE answer = "none" -> NullV
       [] answer = "refused" -> ChangeResult(FALSE, <<>>, <<>>)
       [] answer = "created" -> ChangeResult(TRUE, created, items)
       [] answer = "createdWithoutItems" -> ChangeResult(TRUE, created, <<>>)

\* the loop over changeResult.caseIDs, `index` counting from 0
RECURSIVE PushIDs(_, _, _)
PushIDs(IDs, changeResult, index) ==
  IF ~(index < Len(changeResult.caseIDs)) THEN IDs
  ELSE
    LET caseid == changeResult.caseIDs[index + 1]
        itemid == IF index <= Len(changeResult.itemIDs)
                  THEN (IF index < Len(changeResult.itemIDs)
                        THEN changeResult.itemIDs[index + 1]
                        ELSE Undef)
                  ELSE NullV
    IN PushIDs(Append(IDs, [id |-> caseid, itemID |-> itemid]), changeResult, index + 1)

\* requests.forEach(function (req) {...}) on the variables `success` and `IDs`
\* of createCases. The callback declares a `success` of its own
\* (`var success = success && ...`), which is undefined when its initialiser
\* reads it and which receives the result; the `success` of createCases is
\* not assigned.
RECURSIVE SubmitRequests(_, _, _, _)
SubmitRequests(context_, requests, success, IDs) ==
  IF requests = <<>> THEN [success |-> success, IDs |-> IDs, thrown |-> Undef]
  ELSE
    LET req == Head(requests)
        changeResult == applyChange(context_, req)
        callbackSuccess ==
          LogicalAnd(Undef, LogicalAnd(changeResult, changeResult.success))
    IN IF changeResult \in {NullV, Undef}
       THEN \* changeResult.success
            [success |-> success, IDs |-> IDs, thrown |-> Throw("TypeError", "success")]
       ELSE SubmitRequests(context_, Tail(requests), success,
                           IF Truthy(changeResult.success)
                           THEN PushIDs(IDs, changeResult, 0)
                           ELSE IDs)

\* what createCases hands back
CreateReply(success, values) == [t |-> "object", success |-> success, values |-> values]

\* createCases(iResources, iValues, iRequesterID)
createCases(iRes, iVals, iRequesterID) ==
  IF ~Truthy(iRes.collection)
  THEN CreateReply(Bool(FALSE), [error |-> "Collection not found"])
  ELSE
    LET context_ == iRes.dataContext
        collection == iRes.collection
        cases == IF iVals.t = "array" THEN iVals.items ELSE <<iVals>>
        requests == createOrAppendRequest(cases, <<>>, collection, iRequesterID)
        done == SubmitRequests(context_, requests, Bool(TRUE), <<>>)
    IN IF done.thrown # Undef THEN done.thrown
       ELSE CreateReply(done.success, done.IDs)

\* the parents a case may name: none, or one of two parent cases
Parents == {Undef, [t |-> "id", n |-> 1]}
Answers == {"none", "refused", "created", "createdWithoutItems"}

\* the data contexts, by how they answer, and the resources of a request with
\* and without a collection
DataContexts == {[answers |-> a] : a \in [Parents -> Answers]}
ResourceInputs ==
  {[collection |-> c, dataContext |-> d] :
     c \in {Undef, [t |-> "collection"]}, d \in DataContexts}

\* the values of a request: an array of up to MaxCases cases, or one case on
\* its own; the values of a case are its position
CaseLists ==
  UNION {{[i \in 1..n |-> Case(ps[i], i)] : ps \in [1..n -> Parents]} : n \in 0..MaxCases}
ValueInputs == {Arr(cs) : cs \in CaseLists} \cup {Case(p, 1) : p \in Parents}

\* DG.DocumentHelper.createCases(iResources, iValues, iRequesterID)
CreateCases ==
  /\ reply = Pending
  /\ reply' = createCases(iResources, iValues, "requester")
  /\ UNCHANGED <<facadeVars, evalVars, runtimeVars, documentVars, editVars,
                 iResources, iValues>>

InitCases ==
  /\ source = NullV
  /\ context = NoContext
  /\ InitFacade
  /\ NoEvaluation
  /\ NoRuntime
  /\ NoDocument
  /\ iResources \in ResourceInputs
  /\ iValues \in ValueInputs
  /\ reply = Pending
  /\ NoEdit

NextCases == CreateCases

SpecCases == InitCases /\ [][NextCases]_vars

\* the cases of the request, and those whose change request the data context
\* carried out
RequestedCases == IF iValues.t = "array" THEN iValues.items ELSE <<iValues>>
Answer(case) == iResources.dataContext.answers[case.parent]
Succeeded(case) == Answer(case) \in {"created", "createdWithoutItems"}
Answered == reply # Pending /\ Truthy(iResources.collection)

\* C29: createCases answers success: true only if every change request it
\* submitted succeeded; when a request fails it answers success: false, and
\* the values it answers are the ids of the cases of the successful requests.
C29_SuccessOnlyIfAllSucceeded ==
  Answered =>
    /\ ~IsThrow(reply)
    /\ reply.success = Bool(\A i \in DOMAIN RequestedCases : Succeeded(RequestedCases[i]))
    /\ {reply.values[i].id : i \in DOMAIN reply.values}
         = {CaseID(RequestedCases[i].values) :
              i \in {j \in DOMAIN RequestedCases : Succeeded(RequestedCases[j])}}

\* ------------------------------------------------------------------------
\* DG.PlottedFormulaEditContext: editing the expression of a plotted formula
\* through the formula dialog, as a command of the undo history
\* ------------------------------------------------------------------------

MaxCommands == 2

\* the expressions a user may type, the empty one among them
Formulas == {"", "x", "mean(x)"}

\* a view holding a value; the formula dialog holding the formula typed
View(value) == [t |-> "object", value |-> value]
Dialog(formula) == [t |-> "object", formula |-> formula]

\* expressionBinding: '.plottedFormula.expression': when the handler is over
\* the plotted formula's expression is the edit context's
FlushBindings(ec) == [ec EXCEPT !.plottedFormula.expression = ec.expression]

\* setFormula(formula), bound to the edit context
setFormula(ec, formula) ==
  [ec EXCEPT !.expression = formula,
             !.formulaView = IF @ = NullV THEN @ ELSE [@ EXCEPT !.value = formula]]

\* createEditCommand(newFormula): the closure keeps the expression current
\* at creation and the new formula
createEditCommand(ec, newFormula) ==
  [originalFormula |-> ec.expression, newFormula |-> newFormula]

\* the three steps of a command
execute(cmd, ec) == setFormula(ec, cmd.newFormula)
undo_SetsNewFormula(cmd, ec) == setFormula(ec, cmd.newFormula)
undo(cmd, ec) == setFormula(ec, cmd.originalFormula)
redo(cmd, ec) == setFormula(ec, cmd.newFormula)

\* a step of a command, as the property reads it
Step(step, cmd, ec) == [step |-> step, cmd |-> cmd, before |-> ec.expression]

\* createFormulaView(iOptions): the view shows the plotted formula's
\* expression, and the dialog opens
CreateFormulaView ==
  /\ editContext.formulaView = NullV
  /\ editContext' =
       [editContext EXCEPT
          !.formulaView = View(editContext.plottedFormula.expression),
          !.formulaDialog = Dialog(editContext.expression)]
  /\ UNCHANGED <<facadeVars, evalVars, runtimeVars, documentVars, caseVars,
                 undoHistory, lastStep>>

\* openFormulaEditorDialog(), on a mouseDown in the view
OpenFormulaEditorDialog ==
  /\ editContext.formulaView # NullV
  /\ editContext.formulaDialog = NullV
  /\ editContext' = [editContext EXCEPT !.formulaDialog = Dialog(editContext.expression)]
  /\ UNCHANGED <<facadeVars, evalVars, runtimeVars, documentVars, caseVars,
                 undoHistory, lastStep>>

\* the user types a formula in the dialog
TypeFormula ==
  /\ editContext.formulaDialog # NullV
  /\ \E f \in Formulas \ {editContext.formulaDialog.formula} :
       editContext' = [editContext EXCEPT !.formulaDialog = Dialog(f)]
  /\ UNCHANGED <<facadeVars, evalVars, runtimeVars, documentVars, caseVars,
                 undoHistory, lastStep>>

\* applyNewFormula(), the dialog's apply action: the command is created from
\* the dialog's formula, DG.UndoHistory.execute runs it and keeps it for undo,
\* and the dialog closes
ApplyNewFormula ==
  /\ editContext.formulaDialog # NullV
  /\ Len(undoHistory.undoStack) < MaxCommands
  /\ LET cmd == createEditCommand(editContext, editContext.formulaDialog.formula)
         executed == execute(cmd, editContext)
     IN /\ editContext' = FlushBindings([executed EXCEPT !.formulaDialog = NullV])
        /\ undoHistory' = [undoStack |-> Append(undoHistory.undoStack, cmd),
                           redoStack |-> <<>>]
        /\ lastStep' = Step("execute", cmd, editContext)
  /\ UNCHANGED <<facadeVars, evalVars, runtimeVars, documentVars, caseVars>>

\* DG.UndoHistory.undo(): the last command executed or redone is undone
Undo ==
  /\ undoHistory.undoStack # <<>>
  /\ LET n == Len(undoHistory.undoStack)
         cmd == undoHistory.undoStack[n]
     IN /\ editContext' = FlushBindings(undo(cmd, editContext))
        /\ undoHistory' = [undoStack |-> SubSeq(undoHistory.undoStack, 1, n - 1),
                           redoStack |-> Append(undoHistory.redoStack, cmd)]
        /\ lastStep' = Step("undo", cmd, editContext)
  /\ UNCHANGED <<facadeVars, evalVars, runtimeVars, documentVars, caseVars>>

\* DG.UndoHistory.redo(): the last command undone is redone
Redo ==
  /\ undoHistory.redoStack # <<>>
  /\ LET n == Len(undoHistory.redoStack)
         cmd == undoHistory.redoStack[n]
     IN /\ editContext' = FlushBindings(redo(cmd, editContext))
        /\ undoHistory' = [undoStack |-> Append(undoHistory.undoStack, cmd),
                           redoStack |-> SubSeq(undoHistory.redoStack, 1, n - 1)]
        /\ lastStep' = Step("redo", cmd, editContext)
  /\ UNCHANGED <<facadeVars, evalVars, runtimeVars, documentVars, caseVars>>

InitEdit ==
  /\ source = NullV
  /\ context = NoContext
  /\ InitFacade
  /\ NoEvaluation
  /\ NoRuntime
  /\ NoDocument
  /\ NoCases
  /\ \E f \in Formulas :
       editContext = [plottedFormula |-> [expression |-> f],
                      expression |-> f,
                      formulaView |-> NullV,
                      formulaDialog |-> NullV]
  /\ undoHistory = [undoStack |-> <<>>, redoStack |-> <<>>]
  /\ lastStep = [step |-> "none"]

NextEdit ==
  \/ CreateFormulaView
  \/ OpenFormulaEditorDialog
  \/ TypeFormula
  \/ ApplyNewFormula
  \/ Undo
  \/ Redo

SpecEdit == InitEdit /\ [][NextEdit]_vars

\* the expression and the view's value are both `formula`
ShowsFormula(ec, formula) ==
  /\ ec.expression = formula
  /\ ec.plottedFormula.expression = formula
  /\ ec.formulaView.value = formula

\* C30: after execute or redo of an edit command the plotted formula's
\* expression and the formula view's value are the command's new formula, and
\* after undo both are the expression that was current when the command was
\* created; so the expression depends on the last step alone, and an undo
\* that follows the command's execute restores the expression from before it.
C30_EditCommandSteps ==
  /\ [](lastStep.step \in {"execute", "redo"}
          => ShowsFormula(editContext, lastStep.cmd.newFormula))
  /\ [](lastStep.step = "undo"
          => ShowsFormula(editContext, lastStep.cmd.originalFormula))
  /\ [](lastStep.step = "execute" => lastStep.cmd.originalFormula = lastStep.before)
  /\ [][(lastStep.step = "execute" /\ lastStep'.step = "undo")
          => ShowsFormula(editContext', lastStep.before)]_vars

\* an undo has brought back an expression other than the command's new one
C30_Witness ==
  /\ lastStep.step = "undo"
  /\ lastStep.cmd.newFormula # lastStep.cmd.originalFormula
  /\ lastStep.before = lastStep.cmd.newFormula
  /\ editContext.expression = lastStep.cmd.originalFormula
====
